---- MODULE Spec2Model ----
(***************************************************************************)
(* clip-bridge: the X11 <-> Wayland clipboard bridge.                      *)
(*                                                                         *)
(* Three processes and two display servers:                                *)
(*   - the sync loop of main.rs (the Reconciler), which keeps one          *)
(*     Option<String> per selection kind and forwards text between the     *)
(*     two adapters;                                                       *)
(*   - X11State (x11.rs): run_event_loop, set_clipboard_content,           *)
(*     request_clipboard_content (the pull) and the event handlers;        *)
(*   - WaylandState (wayland.rs): the try_recv / blocking_dispatch loop of *)
(*     main.rs, set_clipboard_content and the Dispatch handlers, with the  *)
(*     probe threads spawned for every new offer;                          *)
(*   - the X server and the Wayland compositor, with external clients      *)
(*     that copy, clear and answer conversion requests.                    *)
(*                                                                         *)
(* Spec is the whole bridge between the two servers. SpecSync is the sync  *)
(* loop alone, fed with the observations the adapters send; SpecW is the   *)
(* Wayland adapter with its compositor, fed with Asserts; SpecX is the X   *)
(* adapter with its server, fed with Asserts; SpecClose is the two         *)
(* adapters while the channels of their Asserts are closed; SpecBroken is  *)
(* the two adapters while their connections fail; SpecDecode is the X      *)
(* adapter pulling from owners that answer late, in one format only, or    *)
(* with bytes that do not decode; SpecProbe is the Wayland adapter         *)
(* observing what other clients copy; SpecBind is the Wayland adapter      *)
(* while the compositor announces its globals, some of them late.          *)
(***************************************************************************)
EXTENDS Naturals, Sequences, FiniteSets

\* ------------------------------------------------------------------ bounds

\* External selection changes (copies and clears by other clients) in a run.
MaxExt == 2

\* Conversion requests other X clients send to our window in a run.
MaxReq == 1

\* Observations handed to the sync loop in SpecSync.
MaxCmd == 3

\* Asserts handed to the Wayland adapter in SpecW.
MaxAssert == 2

\* Asserts and conversion requests handed to the X adapter in SpecX.
MaxXCmd == 2

\* External selection changes on the X server in SpecX.
MaxXExt == 2

\* External selection changes in a run of the adapters with a closing channel.
MaxCloseExt == 1

\* The texts external clients copy: "a" and "e-acute" as code point sequences.
Texts == { <<97>>, <<233>> }

\* Option<T>: None is the empty sequence and Some(v) the sequence of v alone.
None == <<>>

Some(v) == <<v>>

Unwrap(o) == o[1]

Kinds == {"Clipboard", "Primary"}

Other(k) == IF k = "Clipboard" THEN "Primary" ELSE "Clipboard"

\* ------------------------------------------------------- ClipboardContent

Text(t) == [tag |-> "Text", text |-> t]

Binary(m) == [tag |-> "Binary", map |-> m]

Empty == [tag |-> "Empty"]

\* ------------------------------------------------------------- encodings

\* str::as_bytes: the UTF-8 encoding of a string of code points below 2048.
RECURSIVE as_bytes(_)
as_bytes(t) ==
    IF t = <<>> THEN <<>>
    ELSE LET c == Head(t)
         IN  (IF c < 128 THEN <<c>>
              ELSE <<192 + (c \div 64), 128 + (c % 64)>>) \o as_bytes(Tail(t))

\* A decoder that takes every byte for a character of its own.
C12_BytesAsChars(b) == Some(b)

\* String::from_utf8: Some(the decoded string), or None for malformed input.
RECURSIVE from_utf8(_)
from_utf8(b) ==
    IF b = <<>> THEN Some(<<>>)
    ELSE LET c == Head(b)
         IN  IF c < 128
             THEN LET r == from_utf8(Tail(b))
                  IN  IF r = None THEN None ELSE Some(<<c>> \o Unwrap(r))
             ELSE IF c >= 194 /\ c < 224 /\ Len(b) >= 2
                     /\ b[2] >= 128 /\ b[2] < 192
             THEN LET r == from_utf8(Tail(Tail(b)))
                  IN  IF r = None THEN None
                      ELSE Some(<<(c - 192) * 64 + (b[2] - 128)>> \o Unwrap(r))
             ELSE None

\* b as char for every byte: the Latin-1 reading of a STRING property.
latin1(b) == b

\* ------------------------------------------------------------- names

TEXT_PLAIN_UTF8_ATOM == "text/plain;charset=utf-8"
TEXT_PLAIN_ATOM == "text/plain"
UTF8_STRING_ATOM == "UTF8_STRING"
STRING_ATOM == "STRING"
TEXT_ATOM == "TEXT"
TARGETS_ATOM == "TARGETS"
MULTIPLE_ATOM == "MULTIPLE"
CLIPBOARD_ATOM == "CLIPBOARD"
PRIMARY_ATOM == "PRIMARY"
INCR_ATOM == "INCR"

\* The probe list of the Selection handler.
mime_types ==
    << "text/plain;charset=utf-8", "text/plain", "UTF8_STRING",
       "image/png", "image/bmp", "image/jpeg" >>

\* The MIME types set_clipboard_content offers for a content value.
OfferedMimes(content) ==
    IF content.tag = "Text"
    THEN << "text/plain;charset=utf-8", "text/plain", "UTF8_STRING", "TEXT", "STRING" >>
    ELSE IF content.tag = "Binary"
    THEN LET RECURSIVE keys(_)
             keys(S) == IF S = {} THEN <<>>
                        ELSE LET m == CHOOSE x \in S : TRUE
                             IN  <<m>> \o keys(S \ {m})
         IN  keys(DOMAIN content.map)
    ELSE <<>>

\* A pull that prefers STRING.
C27_StringFirst == << "STRING", "UTF8_STRING", "text/plain" >>

\* The targets a pull tries, in order.
targets == << "UTF8_STRING", "text/plain", "STRING" >>

VARIABLES
    \* ---- main.rs: the sync loop
    ledger,                 \* x11_content / primary_content: kind -> text or None
    x11_to_wayland,         \* channel X adapter -> sync loop (SyncEvent)
    wayland_to_x11,         \* channel Wayland adapter -> sync loop (SyncEvent)
    set_x11_clipboard,      \* channel sync loop -> X adapter
    set_wayland_clipboard,  \* channel sync loop -> Wayland adapter
    sync_log,               \* what the last iteration of the sync loop did
    \* ---- x11.rs: X11State and its event loop
    x_content,              \* clipboard_content / primary_content
    x_pc,                   \* "loop" (run_event_loop), "pull" or "dead"
    x_pull,                 \* the running pull: [kind, i]
    \* ---- the X server and its other clients
    x_owner,                \* kind -> "none", "self" or "ext"
    x_ext,                  \* kind -> the text the external owner holds
    x_events,               \* events queued for our window
    x_props,                \* CLIP_TEMP_<i> properties of our window
    x_converts,             \* conversion requests waiting at external owners
    x_reply,                \* what the last requestor of our selection was given
    \* ---- wayland.rs: WaylandState and its loop
    w_content,              \* clipboard_content / primary_content
    w_pending_primary,      \* pending_primary_content
    w_source,               \* clipboard_source / primary_source
    w_manager,              \* data_control_manager is bound
    w_seat,                 \* seat is bound
    w_device,               \* data_control_device is bound
    w_requests,             \* the requests of the last set_clipboard_content
    w_workers,              \* probe threads that are about to send their result
    \* ---- the Wayland compositor and its other clients
    w_sel,                  \* kind -> the selection the compositor holds
    w_live,                 \* sources created and not destroyed
    w_next,                 \* the next fresh source id
    w_double_destroy,       \* destroy was called on a destroyed source
    w_globals,              \* the globals the compositor has announced
    w_events,               \* events queued for our client
    \* ---- environment budgets
    ext_left,               \* external selection changes still allowed
    cmd_left,               \* requests and commands from outside still allowed
    closed,                 \* the Assert channels whose senders are all dropped
    broken                  \* the display connections that have failed

vars == << ledger, x11_to_wayland, wayland_to_x11, set_x11_clipboard,
           set_wayland_clipboard, sync_log,
           x_content, x_pc, x_pull, x_owner, x_ext, x_events, x_props, x_converts,
           x_reply, w_content, w_pending_primary, w_source, w_manager, w_seat,
           w_device, w_requests, w_workers, w_sel, w_live, w_next,
           w_double_destroy, w_globals, w_events,
           ext_left, cmd_left, closed, broken >>

sync_vars == << ledger, x11_to_wayland, wayland_to_x11, set_x11_clipboard,
                set_wayland_clipboard, sync_log >>

x_vars == << x_content, x_pc, x_pull >>

xsrv_vars == << x_owner, x_ext, x_events, x_props, x_converts, x_reply >>

w_vars == << w_content, w_pending_primary, w_source, w_manager, w_seat,
             w_device, w_requests, w_workers >>

wsrv_vars == << w_sel, w_live, w_next, w_double_destroy, w_globals, w_events >>

\* No pull is running.
NoPull == [kind |-> "none", i |-> 0]

\* A property that does not exist: get_property answers type 0 and no bytes.
NoProperty == [type |-> "0", value |-> <<>>]

\* AtomEnum::NONE as the property of a SelectionNotify.
NONE == 0

\* No requestor has been answered yet.
NoReply == [answered |-> FALSE]

NoSelection == [owner |-> "none"]

\* A Selection event with no offer: the selection was cleared.
NoOffer == [src |-> "none"]

\* ------------------------------------- wayland.rs: binding the globals

\* The event the device gets when the selection of kind k changes.
SelectionEvent(k, offer) ==
    [type |-> IF k = "Clipboard" THEN "Selection" ELSE "PrimarySelection",
     offer |-> offer]

\* The globals of the compositor: the seat, the data-control manager, and
\* wl_compositor for every global the adapter binds without further effect.
SEAT == "wl_seat"
DATA_CONTROL_MANAGER == "zwlr_data_control_manager_v1"
COMPOSITOR == "wl_compositor"

Globals == << COMPOSITOR, SEAT, DATA_CONTROL_MANAGER >>

\* The offer that stands for the selection of kind k the compositor holds.
CurrentOffer(s, k) ==
    IF s.sel[k].owner = "ext" THEN [src |-> "ext", data |-> s.sel[k].data]
    ELSE IF s.sel[k].owner = "self" THEN [src |-> "self", id |-> s.sel[k].src]
    ELSE NoOffer

\* manager.get_data_device(seat, qh, ()): the device is recorded, and the
\* compositor announces to it the selections it holds.
get_data_device(s) ==
    [s EXCEPT !.device = TRUE,
              !.events = @ \o << SelectionEvent("Clipboard", CurrentOffer(s, "Clipboard")),
                                 SelectionEvent("Primary", CurrentOffer(s, "Primary")) >>]

\* Dispatch<WlRegistry>: Global { interface }. The device is obtained as
\* soon as the seat and the manager are both bound, whichever comes last.
registry_global(s, interface) ==
    IF interface = SEAT
    THEN LET bound == [s EXCEPT !.seat = TRUE]
         IN  IF bound.manager THEN get_data_device(bound) ELSE bound
    ELSE IF interface = DATA_CONTROL_MANAGER
    THEN LET bound == [s EXCEPT !.manager = TRUE]
         IN  IF bound.seat THEN get_data_device(bound) ELSE bound
    ELSE s

\* Dispatch<WlSeat>: any event of the seat.
seat_event(s) ==
    IF ~s.device /\ s.manager THEN get_data_device(s) ELSE s

\* The two roundtrips of main: the Global events of the globals announced
\* so far are dispatched in the order the compositor lists them.
RECURSIVE roundtrip(_, _)
roundtrip(s, announced) ==
    IF announced = <<>> THEN s
    ELSE roundtrip(registry_global(s, Head(announced)), Tail(announced))

\* WaylandState::new, as far as the globals go.
Unbound ==
    [manager |-> FALSE, seat |-> FALSE, device |-> FALSE, events |-> <<>>,
     sel |-> [k \in Kinds |-> NoSelection]]

\* ------------------------------------------------------------------ Init

\* The state once both adapters are connected and the three loops start,
\* with the budgets of the environment given and the globals the compositor
\* announced before the loops start.
InitAfter(ext, cmd, announced) ==
    /\ ledger = [k \in Kinds |-> None]
    /\ x11_to_wayland = <<>>
    /\ wayland_to_x11 = <<>>
    /\ set_x11_clipboard = <<>>
    /\ set_wayland_clipboard = <<>>
    /\ sync_log = [act |-> "none", from |-> "none", kind |-> "none"]
    /\ x_content = [k \in Kinds |-> None]
    /\ x_pc = "loop"
    /\ x_pull = NoPull
    /\ x_owner = [k \in Kinds |-> "none"]
    /\ x_ext = [k \in Kinds |-> None]
    /\ x_events = <<>>
    /\ x_props = [i \in 1..Len(targets) |-> NoProperty]
    /\ x_converts = <<>>
    /\ x_reply = NoReply
    /\ w_content = [k \in Kinds |-> None]
    /\ w_pending_primary = None
    /\ w_source = [k \in Kinds |-> None]
    /\ w_manager = roundtrip(Unbound, announced).manager
    /\ w_seat = roundtrip(Unbound, announced).seat
    /\ w_device = roundtrip(Unbound, announced).device
    /\ w_requests = <<>>
    /\ w_workers = <<>>
    /\ w_sel = [k \in Kinds |-> NoSelection]
    /\ w_live = {}
    /\ w_next = 1
    /\ w_double_destroy = FALSE
    /\ w_globals = { announced[i] : i \in 1..Len(announced) }
    /\ w_events = <<>>
    /\ ext_left = ext
    /\ cmd_left = cmd
    /\ closed = {}
    /\ broken = {}

\* The same with every global announced: the device is bound.
InitWith(ext, cmd) == InitAfter(ext, cmd, Globals)

\* The Wayland loop has made its first try_recv, found nothing, and waits in
\* blocking_dispatch; the X11 loop is at the top of run_event_loop.
Init == InitWith(MaxExt, MaxReq)

\* ------------------------------------------------- main.rs: the sync loop

SyncEvent(content, clipboard_type) ==
    [content |-> content, clipboard_type |-> clipboard_type]

\* A sync loop that forwards every text, equal to its ledger entry or not.
C2_AlwaysChanged(current, text) == TRUE

\* if x11_content.as_ref() != Some(&text)
ContentChanged(current, text) == current # Some(text)

\* One iteration of the select! loop on an event `ev` taken from side `from`:
\* the new ledger, the message sent (or None) and the branch taken.
\* Text: forwarded to the other side when it differs from the ledger entry.
\* Empty: the ledger entry is reset and nothing is sent.
\* Binary: the match of main.rs has no arm for it; nothing is done with it.
SyncOutcome(ev) ==
    LET k == ev.clipboard_type
        c == ev.content
    IN  IF c.tag = "Text"
        THEN IF ContentChanged(ledger[k], c.text)
             THEN [ledger |-> [ledger EXCEPT ![k] = Some(c.text)],
                   send |-> Some([content |-> Text(c.text), clipboard_type |-> k]),
                   act |-> "forward"]
             ELSE [ledger |-> ledger, send |-> None, act |-> "skip"]
        ELSE IF c.tag = "Empty"
        THEN [ledger |-> [ledger EXCEPT ![k] = None], send |-> None, act |-> "clear"]
        ELSE [ledger |-> ledger, send |-> None, act |-> "unhandled"]

\* Some(event) = x11_to_wayland_rx.recv()
SyncFromX11 ==
    /\ x11_to_wayland # <<>>
    /\ LET ev == Head(x11_to_wayland)
           out == SyncOutcome(ev)
       IN  /\ x11_to_wayland' = Tail(x11_to_wayland)
           /\ ledger' = out.ledger
           /\ set_wayland_clipboard' =
                 IF out.send = None THEN set_wayland_clipboard
                 ELSE Append(set_wayland_clipboard, Unwrap(out.send))
           /\ sync_log' = [act |-> out.act, from |-> "X11", kind |-> ev.clipboard_type]
    /\ UNCHANGED << wayland_to_x11, set_x11_clipboard >>
    /\ UNCHANGED << x_vars, xsrv_vars, w_vars, wsrv_vars, ext_left, cmd_left >>
    /\ UNCHANGED << closed, broken >>

\* Some(event) = wayland_to_x11_rx.recv()
SyncFromWayland ==
    /\ wayland_to_x11 # <<>>
    /\ LET ev == Head(wayland_to_x11)
           out == SyncOutcome(ev)
       IN  /\ wayland_to_x11' = Tail(wayland_to_x11)
           /\ ledger' = out.ledger
           /\ set_x11_clipboard' =
                 IF out.send = None THEN set_x11_clipboard
                 ELSE Append(set_x11_clipboard, Unwrap(out.send))
           /\ sync_log' = [act |-> out.act, from |-> "Wayland", kind |-> ev.clipboard_type]
    /\ UNCHANGED << x11_to_wayland, set_wayland_clipboard >>
    /\ UNCHANGED << x_vars, xsrv_vars, w_vars, wsrv_vars, ext_left, cmd_left >>
    /\ UNCHANGED << closed, broken >>

\* A receiver that hands out the newest message of the channel first.
C11_RecvNewest(ch) ==
    [msg |-> ch[Len(ch)], rest |-> SubSeq(ch, 1, Len(ch) - 1)]

\* UnboundedReceiver::try_recv on a channel that holds a message: the
\* oldest message, and the channel without it.
try_recv(ch) == [msg |-> Head(ch), rest |-> Tail(ch)]

\* ------------------------------------------------------ the X server side

XfixesSelectionNotify(k, owner) ==
    [type |-> "XfixesSelectionNotify", selection |-> k, owner |-> owner]

SelectionClear(k) == [type |-> "SelectionClear", selection |-> k]

SelectionNotify(k, target, property) ==
    [type |-> "SelectionNotify", selection |-> k, target |-> target,
     property |-> property]

\* The state the X adapter works on: its own fields, its channels' ends, and
\* the part of the X server its requests reach.
XState ==
    [content |-> x_content, pc |-> x_pc, pull |-> x_pull,
     observed |-> x11_to_wayland,
     owner |-> x_owner, ext |-> x_ext, events |-> x_events,
     props |-> x_props, converts |-> x_converts, reply |-> x_reply]

\* The server's part of convert_selection(window, selection, target, property):
\* with no owner it answers SelectionNotify(property = NONE) at once; with an
\* external owner the request waits at that owner, who answers from the text
\* it holds when the request reaches it.
convert_selection(s, k, target, property) ==
    IF s.owner[k] = "ext"
    THEN [s EXCEPT !.converts =
            Append(@, [selection |-> k, target |-> target,
                       property |-> property, text |-> s.ext[k]])]
    ELSE [s EXCEPT !.events = Append(@, SelectionNotify(k, target, NONE))]

\* The timestamp set_clipboard_content passes (`let timestamp = CURRENT_TIME`):
\* X's CurrentTime, which stands for the server's current time.
CURRENT_TIME == 0

\* The server's part of set_selection_owner(window, selection, time). With
\* CURRENT_TIME the server puts its own time in: our window becomes the owner
\* and XFixes reports the new owner to us. The adapter holds no timestamp of
\* the server, so any other time it could pass is earlier than the
\* selection's last change, and the server ignores such a request.
set_selection_owner(s, k, time) ==
    IF time = CURRENT_TIME
    THEN [s EXCEPT !.owner[k] = "self", !.ext[k] = None,
                   !.events = Append(@, XfixesSelectionNotify(k, "self"))]
    ELSE s

\* ---------------------------------------------------- x11.rs: X11State

\* A set_clipboard_content that claims the selection with a time of its own.
C15_SetWithStaleTime(s, text, k) ==
    LET owned == set_selection_owner(s, k, 1)
    IN  [owned EXCEPT !.content[k] = Some(text)]

\* X11State::set_clipboard_content(content, clipboard_type)
x_set_clipboard_content(s, text, k) ==
    LET owned == set_selection_owner(s, k, CURRENT_TIME)
    IN  [owned EXCEPT !.content[k] = Some(text)]

\* The decoding of a property read with get_property, in both
\* request_clipboard_content and handle_selection_notify.
DecodeProperty(prop) ==
    IF prop.type = "0" \/ prop.value = <<>> THEN [status |-> "empty"]
    ELSE IF prop.type = UTF8_STRING_ATOM \/ prop.type = TEXT_PLAIN_ATOM
    THEN LET r == from_utf8(prop.value)
         IN  IF r = None THEN [status |-> "invalid"]
             ELSE [status |-> "ok", text |-> Unwrap(r)]
    ELSE IF prop.type = STRING_ATOM
    THEN [status |-> "ok", text |-> latin1(prop.value)]
    ELSE [status |-> "unsupported"]

\* The tail of one attempt of a pull: try the next target, or give up.
PullNextTarget(s) ==
    LET i == s.pull.i
        k == s.pull.kind
    IN  IF i < Len(targets)
        THEN convert_selection([s EXCEPT !.pull.i = i + 1], k, targets[i + 1], i + 1)
        ELSE [s EXCEPT !.pc = "loop", !.pull = NoPull]

\* A request_clipboard_content that does not look at the owner first.
C26_PullWithoutOwnerCheck(s, k) ==
    convert_selection([s EXCEPT !.pc = "pull", !.pull = [kind |-> k, i |-> 1]],
                      k, targets[1], 1)

\* X11State::request_clipboard_content up to its first convert_selection.
request_clipboard_content(s, k) ==
    IF s.owner[k] = "self" \/ s.owner[k] = "none"
    THEN [s EXCEPT !.pc = "loop"]
    ELSE convert_selection([s EXCEPT !.pc = "pull", !.pull = [kind |-> k, i |-> 1]],
                           k, targets[1], 1)

\* What the pull stores when a reply decodes: its own snapshot for the kind.
PullStore(content, k, text) == [content EXCEPT ![k] = Some(text)]

\* One poll of the pull's wait loop that returns the event e.
PullPollEvent(s, e) ==
    IF e.type = "SelectionNotify"
    THEN IF e.property # NONE
         THEN LET d == DecodeProperty(s.props[e.property])
              IN  IF d.status = "empty" \/ d.status = "unsupported"
                  THEN PullNextTarget([s EXCEPT !.props[e.property] = NoProperty])
                  ELSE IF d.status = "invalid"
                  THEN [s EXCEPT !.pc = "loop", !.pull = NoPull]
                  ELSE [s EXCEPT !.content = PullStore(@, s.pull.kind, d.text),
                                 !.observed = Append(@, SyncEvent(Text(d.text), s.pull.kind)),
                                 !.props[e.property] = NoProperty,
                                 !.pc = "loop", !.pull = NoPull]
         ELSE PullNextTarget(s)
    ELSE s

\* X11State::handle_selection_notify
handle_selection_notify(s, e) ==
    IF e.property = NONE THEN s
    ELSE LET d == DecodeProperty(s.props[e.property])
         IN  IF d.status = "empty" \/ d.status = "unsupported"
             THEN [s EXCEPT !.props[e.property] = NoProperty]
             ELSE IF d.status = "invalid"
             THEN [s EXCEPT !.pc = "dead"]
             ELSE [s EXCEPT !.content[e.selection] = Some(d.text),
                            !.observed = Append(@, SyncEvent(Text(d.text), e.selection)),
                            !.props[e.property] = NoProperty]

\* The SelectionNotify sent to a requestor, with what it finds in the
\* property named: property NONE says the conversion was refused.
Reply(k, target, property, type, format, value) ==
    [answered |-> TRUE, selection |-> k, target |-> target,
     property |-> property, type |-> type, format |-> format, value |-> value]

\* A TARGETS answer that leaves TARGETS itself out.
C18_TextAtomsOnly == << UTF8_STRING_ATOM, STRING_ATOM, TEXT_ATOM >>

\* The targets the TARGETS answer lists.
target_atoms == << UTF8_STRING_ATOM, STRING_ATOM, TEXT_ATOM, TARGETS_ATOM >>

\* A handle_selection_request that serves text from the snapshot of the kind
\* that was not asked for.
C17_ServeOtherKind(s, e) ==
    LET k == e.selection
    IN  IF e.target = TARGETS_ATOM
        THEN [s EXCEPT !.reply = Reply(k, e.target, e.property, "ATOM", 32, target_atoms)]
        ELSE IF e.target = MULTIPLE_ATOM
        THEN [s EXCEPT !.reply = Reply(k, e.target, e.property, STRING_ATOM, 8, <<>>)]
        ELSE IF e.target \in {UTF8_STRING_ATOM, STRING_ATOM, TEXT_ATOM}
        THEN IF s.content[Other(k)] # None
             THEN [s EXCEPT !.reply = Reply(k, e.target, e.property, UTF8_STRING_ATOM, 8,
                                            as_bytes(Unwrap(s.content[Other(k)])))]
             ELSE [s EXCEPT !.reply = Reply(k, e.target, NONE, "0", 0, <<>>)]
        ELSE [s EXCEPT !.reply = Reply(k, e.target, NONE, "0", 0, <<>>)]

\* X11State::handle_selection_request. TARGETS is answered with the atom
\* list, MULTIPLE by emptying the properties of the pairs, a text target
\* with the snapshot's bytes typed UTF8_STRING, or NONE without a snapshot;
\* any other target with NONE. The SelectionNotify is sent in every case.
handle_selection_request(s, e) ==
    LET k == e.selection
    IN  IF e.target = TARGETS_ATOM
        THEN [s EXCEPT !.reply = Reply(k, e.target, e.property, "ATOM", 32, target_atoms)]
        ELSE IF e.target = MULTIPLE_ATOM
        THEN [s EXCEPT !.reply = Reply(k, e.target, e.property, STRING_ATOM, 8, <<>>)]
        ELSE IF e.target \in {UTF8_STRING_ATOM, STRING_ATOM, TEXT_ATOM}
        THEN IF s.content[k] # None
             THEN [s EXCEPT !.reply = Reply(k, e.target, e.property, UTF8_STRING_ATOM, 8,
                                            as_bytes(Unwrap(s.content[k])))]
             ELSE [s EXCEPT !.reply = Reply(k, e.target, NONE, "0", 0, <<>>)]
        ELSE [s EXCEPT !.reply = Reply(k, e.target, NONE, "0", 0, <<>>)]

\* A handle_selection_clear that drops the snapshots of both kinds.
C29_ClearBoth(s, e) == [s EXCEPT !.content = [k \in Kinds |-> None]]

\* X11State::handle_selection_clear
handle_selection_clear(s, e) == [s EXCEPT !.content[e.selection] = None]

\* X11State::handle_xfixes_selection_notify
handle_xfixes_selection_notify(s, e) ==
    IF e.owner = "self" THEN s
    ELSE IF e.owner # "none" THEN request_clipboard_content(s, e.selection)
    ELSE s

\* The match of run_event_loop on a polled event.
XDispatch(s, e) ==
    IF e.type = "SelectionRequest" THEN handle_selection_request(s, e)
    ELSE IF e.type = "SelectionNotify" THEN handle_selection_notify(s, e)
    ELSE IF e.type = "SelectionClear" THEN handle_selection_clear(s, e)
    ELSE IF e.type = "XfixesSelectionNotify" THEN handle_xfixes_selection_notify(s, e)
    ELSE s

XCommit(s) ==
    /\ x_content' = s.content
    /\ x_pc' = s.pc
    /\ x_pull' = s.pull
    /\ x11_to_wayland' = s.observed
    /\ x_owner' = s.owner
    /\ x_ext' = s.ext
    /\ x_events' = s.events
    /\ x_props' = s.props
    /\ x_converts' = s.converts
    /\ x_reply' = s.reply

\* One iteration of run_event_loop: set_clipboard_rx.try_recv() and the
\* set_clipboard_content it leads to, then conn.poll_for_event() and the
\* dispatch of the event it returns. (An iteration that finds neither a
\* message nor an event changes nothing.)
XIterate ==
    /\ x_pc = "loop"
    /\ set_x11_clipboard # <<>> \/ x_events # <<>>
    /\ LET received ==
             IF set_x11_clipboard # <<>>
             THEN LET m == try_recv(set_x11_clipboard).msg
                  IN  x_set_clipboard_content(XState, m.content.text, m.clipboard_type)
             ELSE XState
           polled ==
             IF received.events # <<>>
             THEN XDispatch([received EXCEPT !.events = Tail(@)], Head(received.events))
             ELSE received
       IN  /\ XCommit(polled)
           /\ set_x11_clipboard' =
                 IF set_x11_clipboard # <<>> THEN try_recv(set_x11_clipboard).rest
                 ELSE set_x11_clipboard
    /\ UNCHANGED << ledger, wayland_to_x11, set_wayland_clipboard, sync_log >>
    /\ UNCHANGED << w_vars, wsrv_vars, ext_left, cmd_left >>
    /\ UNCHANGED << closed, broken >>

\* request_clipboard_content: a poll of the wait loop that returns an event
XPullPoll ==
    /\ x_pc = "pull"
    /\ x_events # <<>>
    /\ XCommit(PullPollEvent([XState EXCEPT !.events = Tail(@)], Head(x_events)))
    /\ UNCHANGED << ledger, wayland_to_x11, set_x11_clipboard,
                    set_wayland_clipboard, sync_log >>
    /\ UNCHANGED << w_vars, wsrv_vars, ext_left, cmd_left >>
    /\ UNCHANGED << closed, broken >>

\* request_clipboard_content: the ten polls of an attempt ran out
XPullTimeout ==
    /\ x_pc = "pull"
    /\ x_events = <<>>
    /\ XCommit(PullNextTarget(XState))
    /\ UNCHANGED << ledger, wayland_to_x11, set_x11_clipboard,
                    set_wayland_clipboard, sync_log >>
    /\ UNCHANGED << w_vars, wsrv_vars, ext_left, cmd_left >>
    /\ UNCHANGED << closed, broken >>

\* ------------------------------------------------ other clients of the X server

\* Another client takes the selection with text t: the previous owner, if it
\* is our window, gets SelectionClear, and XFixes reports the new owner.
ExtXCopy(k, t) ==
    /\ ext_left > 0
    /\ ext_left' = ext_left - 1
    /\ x_owner' = [x_owner EXCEPT ![k] = "ext"]
    /\ x_ext' = [x_ext EXCEPT ![k] = Some(t)]
    /\ x_events' =
         (IF x_owner[k] = "self" THEN Append(x_events, SelectionClear(k)) ELSE x_events)
         \o << XfixesSelectionNotify(k, "ext") >>
    /\ UNCHANGED << x_props, x_converts, x_reply, x_vars, sync_vars, w_vars,
                    wsrv_vars, cmd_left >>
    /\ UNCHANGED << closed, broken >>

\* The external owner goes away: the selection has no owner.
ExtXClear(k) ==
    /\ ext_left > 0
    /\ x_owner[k] = "ext"
    /\ ext_left' = ext_left - 1
    /\ x_owner' = [x_owner EXCEPT ![k] = "none"]
    /\ x_ext' = [x_ext EXCEPT ![k] = None]
    /\ x_events' = Append(x_events, XfixesSelectionNotify(k, "none"))
    /\ UNCHANGED << x_props, x_converts, x_reply, x_vars, sync_vars, w_vars,
                    wsrv_vars, cmd_left >>
    /\ UNCHANGED << closed, broken >>

\* An external owner answers the oldest conversion request it was sent: it
\* converts to UTF8_STRING and refuses every other target.
ExtXAnswer ==
    /\ x_converts # <<>>
    /\ LET c == Head(x_converts)
       IN  /\ x_converts' = Tail(x_converts)
           /\ IF c.target = UTF8_STRING_ATOM
              THEN /\ x_props' = [x_props EXCEPT ![c.property] =
                                    [type |-> UTF8_STRING_ATOM,
                                     value |-> as_bytes(Unwrap(c.text))]]
                   /\ x_events' = Append(x_events,
                                    SelectionNotify(c.selection, c.target, c.property))
              ELSE /\ x_props' = x_props
                   /\ x_events' = Append(x_events,
                                    SelectionNotify(c.selection, c.target, NONE))
    /\ UNCHANGED << x_owner, x_ext, x_reply, x_vars, sync_vars, w_vars, wsrv_vars,
                    ext_left, cmd_left >>
    /\ UNCHANGED << closed, broken >>

\* The targets other clients ask our window to convert to.
RequestTargets ==
    { UTF8_STRING_ATOM, STRING_ATOM, TEXT_ATOM, TARGETS_ATOM, MULTIPLE_ATOM,
      "image/png" }

\* The property a requestor names in its request.
RequestProperty == 1

\* Another client asks for the selection our window owns: the server sends
\* our window a SelectionRequest.
ExtXRequest(k, target) ==
    /\ cmd_left > 0
    /\ x_owner[k] = "self"
    /\ cmd_left' = cmd_left - 1
    /\ x_events' = Append(x_events,
                          [type |-> "SelectionRequest", selection |-> k,
                           target |-> target, property |-> RequestProperty])
    /\ UNCHANGED << x_owner, x_ext, x_props, x_converts, x_reply, x_vars, sync_vars,
                    w_vars, wsrv_vars, ext_left >>
    /\ UNCHANGED << closed, broken >>

\* ------------------------------------------------ the Wayland compositor side

EmptyMap == [m \in {} |-> <<>>]

\* What an external text source hands out: the text's bytes on the text MIMEs.
TextData(t) ==
    [m \in {"text/plain;charset=utf-8", "text/plain", "UTF8_STRING"} |-> as_bytes(t)]

\* What an external image source hands out.
PngData == [m \in {"image/png"} |-> <<137, 80>>]

ExtDatas == { TextData(t) : t \in Texts } \cup { PngData }

\* The copies external clients make of kind k. The adapter never reads a
\* primary offer, so one value stands for every primary copy.
ExtCopies(k) == IF k = "Clipboard" THEN ExtDatas ELSE { PngData }

\* The state the Wayland adapter works on: its own fields, its channel's end,
\* and the part of the compositor its requests reach.
WState ==
    [content |-> w_content, pending_primary |-> w_pending_primary,
     source |-> w_source, manager |-> w_manager, seat |-> w_seat,
     device |-> w_device, requests |-> w_requests,
     workers |-> w_workers, observed |-> wayland_to_x11,
     sel |-> w_sel, live |-> w_live, next |-> w_next,
     double_destroy |-> w_double_destroy, globals |-> w_globals,
     events |-> w_events]

\* The compositor replaces the selection of kind k: a source of ours that was
\* the selection is cancelled, and the device is told about the new offer.
ReplaceSelection(s, k, sel, offer) ==
    LET prev == s.sel[k]
        cancelled == IF prev.owner = "self"
                     THEN << [type |-> "Cancelled", src |-> prev.src] >>
                     ELSE <<>>
        announce == IF s.device THEN << SelectionEvent(k, offer) >> ELSE <<>>
    IN  [s EXCEPT !.sel[k] = sel,
                  !.events = @ \o cancelled \o announce]

\* One request of the adapter, as the client library and the compositor
\* carry it out.
ApplyRequest(s, r) ==
    IF r.op = "create_data_source"
    THEN [s EXCEPT !.live = @ \cup {r.src}, !.next = r.src + 1]
    ELSE IF r.op = "offer" THEN s
    ELSE IF r.op = "set_selection"
    THEN ReplaceSelection(s, r.kind,
                          [owner |-> "self", src |-> r.src, mimes |-> r.mimes],
                          [src |-> "self", id |-> r.src])
    ELSE \* destroy
         IF r.src \in s.live
         THEN LET gone == [s EXCEPT !.live = @ \ {r.src}]
                  held == { k \in Kinds : s.sel[k].owner = "self" /\ s.sel[k].src = r.src }
              IN  IF "Clipboard" \in held
                  THEN ReplaceSelection(
                         [gone EXCEPT !.sel["Clipboard"] = NoSelection],
                         "Clipboard", NoSelection, NoOffer)
                  ELSE IF "Primary" \in held
                  THEN ReplaceSelection(
                         [gone EXCEPT !.sel["Primary"] = NoSelection],
                         "Primary", NoSelection, NoOffer)
                  ELSE gone
         ELSE [s EXCEPT !.double_destroy = TRUE]

RECURSIVE ApplyRequests(_, _)
ApplyRequests(s, rs) ==
    IF rs = <<>> THEN s ELSE ApplyRequests(ApplyRequest(s, Head(rs)), Tail(rs))

\* ------------------------------------------------ wayland.rs: WaylandState

OfferRequests(src, mimes) ==
    [i \in 1..Len(mimes) |-> [op |-> "offer", src |-> src, mime |-> mimes[i]]]

SeqToSet(q) == { q[i] : i \in 1..Len(q) }

\* set_clipboard_content destroying the recorded source before the new one
\* is the selection.
C10_DestroyFirst(k, src, content, old) ==
    (IF old # None THEN << [op |-> "destroy", src |-> Unwrap(old)] >> ELSE <<>>)
    \o << [op |-> "create_data_source", src |-> src] >>
    \o OfferRequests(src, OfferedMimes(content))
    \o << [op |-> "set_selection", kind |-> k, src |-> src,
           mimes |-> SeqToSet(OfferedMimes(content))] >>

\* The requests of WaylandState::set_clipboard_content for one kind, in the
\* order the code issues them: create the source, offer its MIME types, make
\* it the selection, and only then destroy the source recorded before.
SetSelectionRequests(k, src, content, old) ==
    << [op |-> "create_data_source", src |-> src] >>
    \o OfferRequests(src, OfferedMimes(content))
    \o << [op |-> "set_selection", kind |-> k, src |-> src,
           mimes |-> SeqToSet(OfferedMimes(content))] >>
    \o (IF old # None THEN << [op |-> "destroy", src |-> Unwrap(old)] >> ELSE <<>>)

\* set_clipboard_content storing the content as the snapshot of both kinds.
C8_StoreBoth(s, content, k) ==
    [s EXCEPT !.content = [kk \in Kinds |-> Some(content)],
              !.pending_primary = Some(content)]

\* The fields set_clipboard_content stores for kind k before it touches the
\* protocol: clipboard_content, or pending_primary_content and primary_content.
StoreContent(s, content, k) ==
    IF k = "Clipboard"
    THEN [s EXCEPT !.content["Clipboard"] = Some(content)]
    ELSE [s EXCEPT !.pending_primary = Some(content),
                   !.content["Primary"] = Some(content)]

\* A set_clipboard_content that does not ask for the device.
C40_SetWithoutDevice(s, content, k) ==
    LET stored == StoreContent(s, content, k)
        src == s.next
        rs == SetSelectionRequests(k, src, content, s.source[k])
        done == ApplyRequests(stored, rs)
    IN  [done EXCEPT !.source[k] = Some(src), !.requests = rs]

\* WaylandState::set_clipboard_content(content, clipboard_type)
w_set_clipboard_content(s, content, k) ==
    IF ~s.device THEN [s EXCEPT !.requests = <<>>]
    ELSE LET stored == StoreContent(s, content, k)
             src == s.next
             rs == SetSelectionRequests(k, src, content, s.source[k])
             done == ApplyRequests(stored, rs)
         IN  IF ~s.manager THEN [stored EXCEPT !.requests = <<>>]
             ELSE [done EXCEPT !.source[k] = Some(src), !.requests = rs]

\* A Send handler that answers for every source from clipboard_content.
C14_SendClipboard(s, src, mime) ==
    IF s.content["Clipboard"] = None THEN <<>>
    ELSE LET data == Unwrap(s.content["Clipboard"])
         IN  IF data.tag = "Text" THEN as_bytes(data.text)
             ELSE IF data.tag = "Binary"
             THEN IF mime \in DOMAIN data.map THEN data.map[mime] ELSE <<>>
             ELSE <<>>

\* What the Send handler writes to the fd for source src and MIME type mime.
SendBytes(s, src, mime) ==
    LET content == IF Some(src) = s.source["Clipboard"] THEN s.content["Clipboard"]
                   ELSE IF Some(src) = s.source["Primary"] THEN s.pending_primary
                   ELSE None
    IN  IF content = None THEN <<>>
        ELSE LET data == Unwrap(content)
             IN  IF data.tag = "Text" THEN as_bytes(data.text)
                 ELSE IF data.tag = "Binary"
                 THEN IF mime \in DOMAIN data.map THEN data.map[mime] ELSE <<>>
                 ELSE <<>>

\* mime.starts_with("text/") || mime == "UTF8_STRING" || mime == "STRING"
IsTextMime(mime) ==
    mime \in {"text/plain;charset=utf-8", "text/plain", "UTF8_STRING", "STRING"}

\* What a probe thread sends once all reads are done: a content, or None.
WorkerResult(all_data, has_text) ==
    LET decoded(m) == IF m \in DOMAIN all_data THEN from_utf8(all_data[m]) ELSE None
        usable(m) == decoded(m) # None /\ decoded(m) # Some(<<>>)
    IN  IF DOMAIN all_data = {} THEN None
        ELSE IF has_text /\ usable("text/plain;charset=utf-8")
        THEN Some(Text(Unwrap(decoded("text/plain;charset=utf-8"))))
        ELSE IF has_text /\ usable("text/plain")
        THEN Some(Text(Unwrap(decoded("text/plain"))))
        ELSE Some(Binary(all_data))

\* A probe thread that stores every read, an empty one included.
C35_InsertAlways(all_data, mime, bytes) ==
    [m \in DOMAIN all_data \cup {mime} |->
        IF m = mime THEN bytes ELSE all_data[m]]

\* The probe thread stores a non-empty read under its MIME type.
Insert(all_data, mime, bytes) ==
    IF bytes = <<>> THEN all_data
    ELSE [m \in DOMAIN all_data \cup {mime} |->
            IF m = mime THEN bytes ELSE all_data[m]]

HasText(all_data) == \E m \in DOMAIN all_data : IsTextMime(m)

\* A probe thread that has read everything is left with sending its result.
WorkerDone(s, all_data) ==
    LET r == WorkerResult(all_data, HasText(all_data))
    IN  IF r = None THEN s ELSE [s EXCEPT !.workers = Append(@, Unwrap(r))]

\* The probe thread of a source of ours asks for MIME type number i: the
\* compositor passes the request on as a Send event while the source lives;
\* a destroyed source yields nothing for this and every later MIME type.
WorkerProbe(s, src, i, all_data) ==
    IF i > Len(mime_types) \/ src \notin s.live
    THEN WorkerDone(s, all_data)
    ELSE [s EXCEPT !.events =
            Append(@, [type |-> "Send", src |-> src, i |-> i, all_data |-> all_data])]

\* The probe thread on the offer of another client: it asks for every MIME
\* type of the probe list in turn and reads what the client writes for it,
\* nothing if the client has no data of that type.
RECURSIVE ProbeFrom(_, _, _)
ProbeFrom(data, i, all_data) ==
    IF i > Len(mime_types) THEN all_data
    ELSE LET mime == mime_types[i]
             buffer == IF mime \in DOMAIN data THEN data[mime] ELSE <<>>
         IN  ProbeFrom(data, i + 1, Insert(all_data, mime, buffer))

ProbeExternal(data) == ProbeFrom(data, 1, EmptyMap)

\* A Selection handler that says nothing about a cleared selection.
C32_ClearedSilent(s, e) ==
    IF e.offer.src = "none" THEN s
    ELSE IF e.offer.src = "ext"
    THEN WorkerDone(s, ProbeExternal(e.offer.data))
    ELSE WorkerProbe(s, e.offer.id, 1, EmptyMap)

\* Dispatch<ZwlrDataControlDeviceV1>: Selection { id }
handle_selection(s, e) ==
    IF e.offer.src = "none"
    THEN [s EXCEPT !.workers = Append(@, Empty)]
    ELSE IF e.offer.src = "ext"
    THEN WorkerDone(s, ProbeExternal(e.offer.data))
    ELSE WorkerProbe(s, e.offer.id, 1, EmptyMap)

\* Dispatch<ZwlrDataControlSourceV1>: Send { mime_type, fd }, and the probe
\* thread at the other end of the pipe going on to its next MIME type.
handle_send(s, e) ==
    LET bytes == IF e.src \in s.live THEN SendBytes(s, e.src, mime_types[e.i]) ELSE <<>>
    IN  WorkerProbe(s, e.src, e.i + 1, Insert(e.all_data, mime_types[e.i], bytes))

\* Dispatch<ZwlrDataControlSourceV1>: Cancelled. The client library delivers
\* no event to a proxy that was destroyed.
handle_cancelled(s, e) ==
    IF e.src \in s.live THEN ApplyRequest(s, [op |-> "destroy", src |-> e.src]) ELSE s

\* A device handler that reads a primary offer like a clipboard offer.
C33_PrimaryObserved(s, e) ==
    IF e.type \in {"Selection", "PrimarySelection"} THEN handle_selection(s, e)
    ELSE IF e.type = "Send" THEN handle_send(s, e)
    ELSE IF e.type = "Cancelled" THEN handle_cancelled(s, e)
    ELSE IF e.type = "Global" THEN registry_global(s, e.interface)
    ELSE IF e.type = "Seat" THEN seat_event(s)
    ELSE s

WDispatchEvent(s, e) ==
    IF e.type = "Selection" THEN handle_selection(s, e)
    ELSE IF e.type = "Send" THEN handle_send(s, e)
    ELSE IF e.type = "Cancelled" THEN handle_cancelled(s, e)
    ELSE IF e.type = "Global" THEN registry_global(s, e.interface)
    ELSE IF e.type = "Seat" THEN seat_event(s)
    ELSE s

WCommit(s) ==
    /\ w_content' = s.content
    /\ w_pending_primary' = s.pending_primary
    /\ w_source' = s.source
    /\ w_manager' = s.manager
    /\ w_seat' = s.seat
    /\ w_device' = s.device
    /\ w_requests' = s.requests
    /\ w_workers' = s.workers
    /\ wayland_to_x11' = s.observed
    /\ w_sel' = s.sel
    /\ w_live' = s.live
    /\ w_next' = s.next
    /\ w_double_destroy' = s.double_destroy
    /\ w_globals' = s.globals
    /\ w_events' = s.events

\* The Wayland loop of main.rs. The loop rests in blocking_dispatch, which
\* returns only after it has dispatched at least one event; the loop then
\* comes round to set_wayland_clipboard_rx.try_recv() and the
\* set_clipboard_content it leads to, and blocks in blocking_dispatch again.
\* `more`: blocking_dispatch goes on to the next queued event before it
\* returns.
WIterate ==
    /\ w_events # <<>>
    /\ LET dispatched == WDispatchEvent([WState EXCEPT !.events = Tail(@)], Head(w_events))
       IN  \E more \in BOOLEAN :
             /\ more => dispatched.events # <<>>
             /\ IF ~more /\ set_wayland_clipboard # <<>>
                THEN LET m == try_recv(set_wayland_clipboard).msg
                     IN  /\ WCommit(w_set_clipboard_content(dispatched, m.content,
                                                            m.clipboard_type))
                         /\ set_wayland_clipboard' = try_recv(set_wayland_clipboard).rest
                ELSE /\ WCommit(dispatched)
                     /\ UNCHANGED set_wayland_clipboard
    /\ UNCHANGED << ledger, x11_to_wayland, set_x11_clipboard, sync_log >>
    /\ UNCHANGED << x_vars, xsrv_vars, ext_left, cmd_left >>
    /\ UNCHANGED << closed, broken >>

\* A probe thread (or the thread spawned for a cleared selection) sends its
\* SyncEvent; the threads run concurrently, so any of them may be next.
WorkerSend ==
    /\ \E i \in 1..Len(w_workers) :
          /\ wayland_to_x11' = Append(wayland_to_x11, SyncEvent(w_workers[i], "Clipboard"))
          /\ w_workers' = [j \in 1..(Len(w_workers) - 1) |->
                              IF j < i THEN w_workers[j] ELSE w_workers[j + 1]]
    /\ UNCHANGED << w_content, w_pending_primary, w_source, w_manager, w_seat,
                    w_device, w_requests >>
    /\ UNCHANGED << ledger, x11_to_wayland, set_x11_clipboard,
                    set_wayland_clipboard, sync_log >>
    /\ UNCHANGED << x_vars, xsrv_vars, wsrv_vars, ext_left, cmd_left >>
    /\ UNCHANGED << closed, broken >>

\* ------------------------------------------- other clients of the compositor

\* Another client copies: its source, handing out data d, is the selection.
ExtWCopy(k, d) ==
    /\ ext_left > 0
    /\ ext_left' = ext_left - 1
    /\ LET s == ReplaceSelection(WState, k, [owner |-> "ext", data |-> d],
                                 [src |-> "ext", data |-> d])
       IN  /\ w_sel' = s.sel
           /\ w_events' = s.events
    /\ UNCHANGED << w_live, w_next, w_double_destroy, w_globals >>
    /\ UNCHANGED << w_vars, x_vars, xsrv_vars, sync_vars, cmd_left >>
    /\ UNCHANGED << closed, broken >>

\* The external owner releases the selection.
ExtWClear(k) ==
    /\ ext_left > 0
    /\ w_sel[k].owner = "ext"
    /\ ext_left' = ext_left - 1
    /\ LET s == ReplaceSelection(WState, k, NoSelection, NoOffer)
       IN  /\ w_sel' = s.sel
           /\ w_events' = s.events
    /\ UNCHANGED << w_live, w_next, w_double_destroy, w_globals >>
    /\ UNCHANGED << w_vars, x_vars, xsrv_vars, sync_vars, cmd_left >>
    /\ UNCHANGED << closed, broken >>

\* ------------------------------------------------------- specifications

Next ==
    \/ SyncFromX11
    \/ SyncFromWayland
    \/ XIterate
    \/ XPullPoll
    \/ XPullTimeout
    \/ \E k \in Kinds, t \in Texts : ExtXCopy(k, t)
    \/ \E k \in Kinds : ExtXClear(k)
    \/ ExtXAnswer
    \/ \E k \in Kinds, target \in RequestTargets : ExtXRequest(k, target)
    \/ WIterate
    \/ WorkerSend
    \/ \E k \in Kinds : \E d \in ExtCopies(k) : ExtWCopy(k, d)
    \/ \E k \in Kinds : ExtWClear(k)

Spec == Init /\ [][Next]_vars

\* ------------------------------------------- the sync loop taken by itself

\* What the X adapter sends to the sync loop: text of either kind
\* (request_clipboard_content and handle_selection_notify).
XObservations == { SyncEvent(Text(t), k) : t \in Texts, k \in Kinds }

\* What the Wayland adapter sends: the result of a probe thread, or Empty
\* for a cleared selection, always for the clipboard.
WObservations ==
    { SyncEvent(c, "Clipboard") :
        c \in { Text(t) : t \in Texts } \cup { Binary(PngData), Empty } }

\* sync_tx.send(SyncEvent::X11ToWayland { .. }) in x11.rs
ObserveX11(ev) ==
    /\ cmd_left > 0
    /\ cmd_left' = cmd_left - 1
    /\ x11_to_wayland' = Append(x11_to_wayland, ev)
    /\ UNCHANGED << ledger, wayland_to_x11, set_x11_clipboard,
                    set_wayland_clipboard, sync_log >>
    /\ UNCHANGED << x_vars, xsrv_vars, w_vars, wsrv_vars, ext_left >>
    /\ UNCHANGED << closed, broken >>

\* sync_tx.send(SyncEvent::WaylandToX11 { .. }) in wayland.rs
ObserveWayland(ev) ==
    /\ cmd_left > 0
    /\ cmd_left' = cmd_left - 1
    /\ wayland_to_x11' = Append(wayland_to_x11, ev)
    /\ UNCHANGED << ledger, x11_to_wayland, set_x11_clipboard,
                    set_wayland_clipboard, sync_log >>
    /\ UNCHANGED << x_vars, xsrv_vars, w_vars, wsrv_vars, ext_left >>
    /\ UNCHANGED << closed, broken >>

InitSync == InitWith(0, MaxCmd)

NextSync ==
    \/ SyncFromX11
    \/ SyncFromWayland
    \/ \E ev \in XObservations : ObserveX11(ev)
    \/ \E ev \in WObservations : ObserveWayland(ev)

SpecSync == InitSync /\ [][NextSync]_vars

\* ------------------------------------- the Wayland adapter taken by itself

\* The contents set_clipboard_content accepts: its parameter is a
\* ClipboardContent, of which the sync loop sends the Text variant.
Contents == { Text(<<97>>), Binary(PngData), Empty }

\* set_wayland_clipboard_tx.send((content, clipboard_type))
SendToWayland(content, k) ==
    /\ cmd_left > 0
    /\ cmd_left' = cmd_left - 1
    /\ set_wayland_clipboard' =
          Append(set_wayland_clipboard, [content |-> content, clipboard_type |-> k])
    /\ UNCHANGED << ledger, x11_to_wayland, wayland_to_x11, set_x11_clipboard,
                    sync_log >>
    /\ UNCHANGED << x_vars, xsrv_vars, w_vars, wsrv_vars, ext_left >>
    /\ UNCHANGED << closed, broken >>

InitW == InitWith(MaxExt, MaxAssert)

NextW ==
    \/ \E c \in Contents, k \in Kinds : SendToWayland(c, k)
    \/ WIterate
    \/ WorkerSend
    \/ \E k \in Kinds : ExtWCopy(k, PngData)

SpecW == InitW /\ [][NextW]_vars

\* ----------------------------------------- the X adapter taken by itself

\* set_x11_clipboard_tx.send((text, clipboard_type))
SendToX11(text, k) ==
    /\ cmd_left > 0
    /\ cmd_left' = cmd_left - 1
    /\ set_x11_clipboard' =
          Append(set_x11_clipboard, [content |-> Text(text), clipboard_type |-> k])
    /\ UNCHANGED << ledger, x11_to_wayland, wayland_to_x11, set_wayland_clipboard,
                    sync_log >>
    /\ UNCHANGED << x_vars, xsrv_vars, w_vars, wsrv_vars, ext_left >>
    /\ UNCHANGED << closed, broken >>

InitX == InitWith(MaxXExt, MaxXCmd)

NextX ==
    \/ \E t \in Texts, k \in Kinds : SendToX11(t, k)
    \/ XIterate
    \/ XPullPoll
    \/ XPullTimeout
    \/ \E k \in Kinds, t \in Texts : ExtXCopy(k, t)
    \/ \E k \in Kinds : ExtXClear(k)
    \/ ExtXAnswer
    \/ \E k \in Kinds, target \in RequestTargets : ExtXRequest(k, target)

SpecX == InitX /\ [][NextX]_vars

\* ------------------------------------------ the adapters and a closed channel

\* The Assert channels, by the name of the receiver's variable.
AssertChannels == { "set_x11_clipboard", "set_wayland_clipboard" }

\* The sync task, which owns set_x11_clipboard_tx and set_wayland_clipboard_tx,
\* is gone and its sender of channel ch is dropped: nothing is sent on ch any
\* more, and once the messages left in it are received, try_recv answers
\* Err(Disconnected).
CloseAssert(ch) ==
    /\ ch \notin closed
    /\ closed' = closed \cup {ch}
    /\ UNCHANGED << sync_vars, x_vars, xsrv_vars, w_vars, wsrv_vars, ext_left,
                    cmd_left, broken >>

\* run_event_loop has returned: the only way out of its loop is the `?` of a
\* handler that failed.
XLoopExited == x_pc = "dead"

\* The Wayland loop of main.rs is `loop { ... }` without break, return or `?`:
\* the task never leaves it.
WaylandLoopExited == FALSE

InitClose == InitWith(MaxCloseExt, MaxXCmd)

NextClose ==
    \/ \E ch \in AssertChannels : CloseAssert(ch)
    \/ \E t \in Texts, k \in Kinds :
          "set_x11_clipboard" \notin closed /\ SendToX11(t, k)
    \/ \E k \in Kinds :
          "set_wayland_clipboard" \notin closed /\ SendToWayland(Text(<<97>>), k)
    \/ XIterate
    \/ XPullPoll
    \/ XPullTimeout
    \/ \E k \in Kinds, t \in Texts : ExtXCopy(k, t)
    \/ ExtXAnswer
    \/ WIterate
    \/ WorkerSend
    \/ \E k \in Kinds : ExtWCopy(k, PngData)

SpecClose == InitClose /\ [][NextClose]_vars

\* ---------------------------------------- the adapters and a broken connection

Connections == { "x11", "wayland" }

\* The connection c to the display server fails: from now on every request
\* on it, every flush and every poll or dispatch returns an error.
BreakConnection(c) ==
    /\ c \notin broken
    /\ broken' = broken \cup {c}
    /\ UNCHANGED << sync_vars, x_vars, xsrv_vars, w_vars, wsrv_vars, ext_left,
                    cmd_left, closed >>

\* X11State::set_clipboard_content on a broken connection: change_property8
\* or the flush after it fails and `?` returns before the snapshot is stored.
x_set_clipboard_content_failed(s, text, k) == s

\* One iteration of run_event_loop on a broken connection: a message
\* received is passed to set_clipboard_content, whose error `let _` drops;
\* poll_for_event returns Err, which is logged; then the loop sleeps and
\* goes round again.
XIterateBroken ==
    /\ "x11" \in broken
    /\ x_pc = "loop"
    /\ set_x11_clipboard # <<>>
    /\ LET m == try_recv(set_x11_clipboard).msg
       IN  XCommit(x_set_clipboard_content_failed(XState, m.content.text,
                                                  m.clipboard_type))
    /\ set_x11_clipboard' = try_recv(set_x11_clipboard).rest
    /\ UNCHANGED << ledger, wayland_to_x11, set_wayland_clipboard, sync_log >>
    /\ UNCHANGED << w_vars, wsrv_vars, ext_left, cmd_left >>
    /\ UNCHANGED << closed, broken >>

\* A pull on a broken connection: the polls of the attempt return Err, the
\* next convert_selection or flush fails and `?` ends the pull;
\* handle_xfixes_selection_notify drops the error and the loop goes on.
XPullBroken ==
    /\ "x11" \in broken
    /\ x_pc = "pull"
    /\ XCommit([XState EXCEPT !.pc = "loop", !.pull = NoPull])
    /\ UNCHANGED << ledger, wayland_to_x11, set_x11_clipboard,
                    set_wayland_clipboard, sync_log >>
    /\ UNCHANGED << w_vars, wsrv_vars, ext_left, cmd_left >>
    /\ UNCHANGED << closed, broken >>

\* One iteration of the Wayland loop on a broken connection: a message
\* received is passed to set_clipboard_content, which stores the content and
\* records a new source while its requests reach no compositor;
\* blocking_dispatch returns Err, which is logged, and the loop goes round
\* again.
WIterateBroken ==
    /\ "wayland" \in broken
    /\ set_wayland_clipboard # <<>>
    /\ LET m == try_recv(set_wayland_clipboard).msg
           r == w_set_clipboard_content(WState, m.content, m.clipboard_type)
       IN  WCommit([r EXCEPT !.sel = w_sel, !.events = w_events])
    /\ set_wayland_clipboard' = try_recv(set_wayland_clipboard).rest
    /\ UNCHANGED << ledger, x11_to_wayland, set_x11_clipboard, sync_log >>
    /\ UNCHANGED << x_vars, xsrv_vars, ext_left, cmd_left >>
    /\ UNCHANGED << closed, broken >>

\* main awaits tokio::join!(x11_handle, wayland_handle) and returns after it:
\* the process ends when both adapter tasks have returned.
ProcessEnded == XLoopExited /\ WaylandLoopExited

\* External selection changes in a run with a failing connection.
MaxBrokenExt == 1

\* Asserts sent to the adapters in a run with a failing connection.
MaxBrokenCmd == 2

InitBroken == InitWith(MaxBrokenExt, MaxBrokenCmd)

NextBroken ==
    \/ \E c \in Connections : BreakConnection(c)
    \/ \E t \in Texts, k \in Kinds : SendToX11(t, k)
    \/ \E k \in Kinds : SendToWayland(Text(<<97>>), k)
    \/ "x11" \notin broken /\ XIterate
    \/ "x11" \notin broken /\ XPullPoll
    \/ "x11" \notin broken /\ XPullTimeout
    \/ \E k \in Kinds, t \in Texts : "x11" \notin broken /\ ExtXCopy(k, t)
    \/ "x11" \notin broken /\ ExtXAnswer
    \/ XIterateBroken
    \/ XPullBroken
    \/ "wayland" \notin broken /\ WIterate
    \/ WorkerSend
    \/ \E k \in Kinds : "wayland" \notin broken /\ ExtWCopy(k, PngData)
    \/ WIterateBroken

SpecBroken == InitBroken /\ [][NextBroken]_vars

\* ------------------------------------- the X adapter and an owner's bad bytes

\* Bytes that are no UTF-8: the Latin-1 encoding of U+00E9.
InvalidUtf8 == << 233 >>

\* An external owner answers the oldest conversion request it was sent, a
\* request for UTF8_STRING, with bytes that are not valid UTF-8.
ExtXAnswerInvalid ==
    /\ x_converts # <<>>
    /\ LET c == Head(x_converts)
       IN  /\ c.target = UTF8_STRING_ATOM
           /\ x_converts' = Tail(x_converts)
           /\ x_props' = [x_props EXCEPT ![c.property] =
                            [type |-> UTF8_STRING_ATOM, value |-> InvalidUtf8]]
           /\ x_events' = Append(x_events,
                                 SelectionNotify(c.selection, c.target, c.property))
    /\ UNCHANGED << x_owner, x_ext, x_reply, x_vars, sync_vars, w_vars, wsrv_vars,
                    ext_left, cmd_left >>
    /\ UNCHANGED << closed, broken >>

\* An external owner that converts to one target only, text/plain (UTF-8
\* bytes) or STRING (Latin-1 bytes: one byte per character), answers the
\* oldest conversion request it was sent and refuses every other target.
ExtXAnswerOnly(target) ==
    /\ x_converts # <<>>
    /\ LET c == Head(x_converts)
       IN  /\ x_converts' = Tail(x_converts)
           /\ IF c.target = target
              THEN /\ x_props' = [x_props EXCEPT ![c.property] =
                                    [type |-> target,
                                     value |-> IF target = STRING_ATOM
                                               THEN Unwrap(c.text)
                                               ELSE as_bytes(Unwrap(c.text))]]
                   /\ x_events' = Append(x_events,
                                    SelectionNotify(c.selection, c.target, c.property))
              ELSE /\ x_props' = x_props
                   /\ x_events' = Append(x_events,
                                    SelectionNotify(c.selection, c.target, NONE))
    /\ UNCHANGED << x_owner, x_ext, x_reply, x_vars, sync_vars, w_vars, wsrv_vars,
                    ext_left, cmd_left >>
    /\ UNCHANGED << closed, broken >>

\* External selection changes in a run with an owner that sends bad bytes.
MaxDecodeExt == 2

\* The X adapter at start, with no Assert to come.
InitDecode == InitWith(MaxDecodeExt, 0)

NextDecode ==
    \/ XIterate
    \/ XPullPoll
    \/ XPullTimeout
    \/ \E k \in Kinds, t \in Texts : ExtXCopy(k, t)
    \/ ExtXAnswer
    \/ ExtXAnswerInvalid
    \/ \E target \in {TEXT_PLAIN_ATOM, STRING_ATOM} : ExtXAnswerOnly(target)

SpecDecode == InitDecode /\ [][NextDecode]_vars

\* --------------------------- the Wayland adapter observing other clients

\* A client that offers the text "a" as UTF8_STRING and as nothing else.
Utf8StringOnly == [m \in {"UTF8_STRING"} |-> <<97>>]

\* A client whose text/plain;charset=utf-8 is no UTF-8 and whose text/plain
\* is the text "b".
CharsetInvalid ==
    [m \in {"text/plain;charset=utf-8", "text/plain"} |->
        IF m = "text/plain" THEN <<98>> ELSE InvalidUtf8]

\* A client that offers the text "a" together with an image.
TextAndPng ==
    [m \in {"text/plain", "image/png"} |->
        IF m = "text/plain" THEN <<97>> ELSE <<137, 80>>]

\* A client whose only text is no UTF-8.
Undecodable == [m \in {"text/plain"} |-> InvalidUtf8]

\* A client that offers an image and text/html, and writes nothing for the
\* image when asked.
EmptyPng ==
    [m \in {"image/png", "text/html"} |->
        IF m = "image/png" THEN <<>> ELSE <<60>>]

\* What other clients copy to the clipboard in SpecProbe.
ProbeDatas ==
    { TextData(<<97>>), PngData, Utf8StringOnly, CharsetInvalid, TextAndPng,
      Undecodable, EmptyPng }

\* External selection changes on the compositor in SpecProbe.
MaxProbeExt == 3

\* The Wayland adapter at start, with no Assert to come.
InitProbe == InitWith(MaxProbeExt, 0)

NextProbe ==
    \/ WIterate
    \/ WorkerSend
    \/ \E d \in ProbeDatas : ExtWCopy("Clipboard", d)
    \/ ExtWCopy("Primary", PngData)
    \/ \E k \in Kinds : ExtWClear(k)

SpecProbe == InitProbe /\ [][NextProbe]_vars

\* ------------------------- the Wayland adapter and globals announced late

\* The compositor announces a global it had not announced before.
ExtGlobal(interface) ==
    /\ ext_left > 0
    /\ interface \notin w_globals
    /\ ext_left' = ext_left - 1
    /\ w_globals' = w_globals \cup {interface}
    /\ w_events' = Append(w_events, [type |-> "Global", interface |-> interface])
    /\ UNCHANGED << w_sel, w_live, w_next, w_double_destroy >>
    /\ UNCHANGED << w_vars, x_vars, xsrv_vars, sync_vars, cmd_left >>
    /\ UNCHANGED << closed, broken >>

\* The seat the adapter has bound sends an event (its capabilities or its
\* name).
ExtSeat ==
    /\ ext_left > 0
    /\ w_seat
    /\ ext_left' = ext_left - 1
    /\ w_events' = Append(w_events, [type |-> "Seat"])
    /\ UNCHANGED << w_sel, w_live, w_next, w_double_destroy, w_globals >>
    /\ UNCHANGED << w_vars, x_vars, xsrv_vars, sync_vars, cmd_left >>
    /\ UNCHANGED << closed, broken >>

\* The orders in which the compositor may have announced some of its globals
\* before the loops start.
RECURSIVE Arrangements(_)
Arrangements(S) ==
    { <<>> } \cup UNION { { <<g>> \o a : a \in Arrangements(S \ {g}) } : g \in S }

\* External events (announcements, seat events, copies) in SpecBind.
MaxBindExt == 2

\* Asserts handed to the Wayland adapter in SpecBind.
MaxBindCmd == 2

\* The Wayland adapter at start, with some of the globals announced.
InitBind ==
    \E announced \in Arrangements({ Globals[i] : i \in 1..Len(Globals) }) :
        InitAfter(MaxBindExt, MaxBindCmd, announced)

NextBind ==
    \/ \E c \in Contents, k \in Kinds : SendToWayland(c, k)
    \/ WIterate
    \/ WorkerSend
    \/ \E i \in 1..Len(Globals) : ExtGlobal(Globals[i])
    \/ ExtSeat
    \/ \E k \in Kinds : ExtWCopy(k, PngData)

SpecBind == InitBind /\ [][NextBind]_vars

\* ------------------------------------------------- x11.rs: X11State::new

\* An atom_names list without text/plain.
C23_NamesWithoutTextPlain ==
    << CLIPBOARD_ATOM, PRIMARY_ATOM, TARGETS_ATOM, MULTIPLE_ATOM, INCR_ATOM,
       UTF8_STRING_ATOM, TEXT_ATOM, STRING_ATOM, TEXT_PLAIN_UTF8_ATOM >>

\* The names X11State::new interns.
atom_names ==
    << CLIPBOARD_ATOM, PRIMARY_ATOM, TARGETS_ATOM, MULTIPLE_ATOM, INCR_ATOM,
       UTF8_STRING_ATOM, TEXT_ATOM, STRING_ATOM, TEXT_PLAIN_UTF8_ATOM,
       TEXT_PLAIN_ATOM >>

\* The atom the server hands out for a name: one atom per name (an atom
\* stands for its name throughout this module).
intern_atom(name) == name

\* The interning loop of X11State::new, when the failing-th intern_atom call
\* fails (0: none does). A failed call makes new return Err through `?`;
\* otherwise the HashMap holds an entry for every name of atom_names.
X11State_new(failing) ==
    IF failing \in 1..Len(atom_names)
    THEN [ok |-> FALSE]
    ELSE [ok |-> TRUE,
          atoms |-> [n \in SeqToSet(atom_names) |-> intern_atom(n)]]

\* X11State::get_atom: self.atoms.get(name).copied()
get_atom(atoms, name) ==
    IF name \in DOMAIN atoms THEN Some(atoms[name]) ELSE None

\* The names set_clipboard_content looks up with get_atom(..).unwrap().
AssertLookups == { CLIPBOARD_ATOM, UTF8_STRING_ATOM }

\* The names the handler of event e looks up with get_atom(..).unwrap();
\* for an XFixes event those of request_clipboard_content as well.
HandlerLookups(e) ==
    IF e.type = "SelectionRequest"
    THEN { UTF8_STRING_ATOM, TARGETS_ATOM, MULTIPLE_ATOM, STRING_ATOM, TEXT_ATOM,
           CLIPBOARD_ATOM }
    ELSE IF e.type = "SelectionNotify"
    THEN { UTF8_STRING_ATOM, STRING_ATOM, TEXT_PLAIN_ATOM, CLIPBOARD_ATOM }
    ELSE IF e.type = "SelectionClear"
    THEN { CLIPBOARD_ATOM }
    ELSE { CLIPBOARD_ATOM, UTF8_STRING_ATOM, TEXT_PLAIN_ATOM, STRING_ATOM }

\* ================================================================ claims

\* The ledger entry that records content c: Some(text) for Text, None for
\* Empty. The ledger is an Option<String> and has no value for Binary.
AsLedger(c) == IF c.tag = "Text" THEN Some(c.text) ELSE None

\* Observation ev differs from / equals the ledger entry of its kind.
DiffersFromLedger(ev) ==
    ev.content.tag = "Binary" \/ ledger[ev.clipboard_type] # AsLedger(ev.content)

EqualsLedger(ev) == ~DiffersFromLedger(ev)

\* This step is the sync loop taking the head of channel ch.
Takes(ch) == ch # <<>> /\ ch' = Tail(ch)

\* After the step the ledger entry of ev's kind records ev's content.
LedgerRecords(ev) ==
    /\ ev.content.tag # "Binary"
    /\ ledger'[ev.clipboard_type] = AsLedger(ev.content)

\* C1: an observation from side S of any content (Text, Binary or Empty)
\* that differs from the ledger entry of its kind sets that entry to the
\* content and enqueues exactly one Assert on the channel of the other side
\* and none on the channel of S.
C1_OneWayForward ==
    [][ /\ (Takes(x11_to_wayland) /\ DiffersFromLedger(Head(x11_to_wayland)))
            => /\ LedgerRecords(Head(x11_to_wayland))
               /\ Len(set_wayland_clipboard') = Len(set_wayland_clipboard) + 1
               /\ UNCHANGED set_x11_clipboard
        /\ (Takes(wayland_to_x11) /\ DiffersFromLedger(Head(wayland_to_x11)))
            => /\ LedgerRecords(Head(wayland_to_x11))
               /\ Len(set_x11_clipboard') = Len(set_x11_clipboard) + 1
               /\ UNCHANGED set_wayland_clipboard ]_vars

\* C2: an observation whose content equals the ledger entry of its kind
\* enqueues no Assert on either channel and leaves both ledger entries as
\* they were.
C2_EchoSuppressionStep ==
    [][ /\ (Takes(x11_to_wayland) /\ EqualsLedger(Head(x11_to_wayland)))
            => UNCHANGED << ledger, set_x11_clipboard, set_wayland_clipboard >>
        /\ (Takes(wayland_to_x11) /\ EqualsLedger(Head(wayland_to_x11)))
            => UNCHANGED << ledger, set_x11_clipboard, set_wayland_clipboard >> ]_vars

\* The sync loop has just skipped a text equal to its ledger entry.
C2_Witness ==
    /\ sync_log.act = "skip"
    /\ ledger[sync_log.kind] # None

\* This step is the sync loop enqueueing one message on channel ch.
Enqueues(ch) == Len(ch') = Len(ch) + 1

\* The message the step has enqueued on channel ch.
Enqueued(ch) == ch'[Len(ch')]

\* C3: the sync loop never enqueues an Assert of kind K and content C for
\* the side whose adapter already holds C as its snapshot of K.
C3_EchoSuppressionInvariant ==
    [][ /\ Enqueues(set_x11_clipboard)
            => x_content[Enqueued(set_x11_clipboard).clipboard_type]
                 # Some(Enqueued(set_x11_clipboard).content.text)
        /\ Enqueues(set_wayland_clipboard)
            => w_content[Enqueued(set_wayland_clipboard).clipboard_type]
                 # Some(Enqueued(set_wayland_clipboard).content) ]_vars

\* The steps of the bridge and of the servers and clients answering it;
\* everything but a new selection change or request from outside.
SystemNext ==
    \/ SyncFromX11
    \/ SyncFromWayland
    \/ XIterate
    \/ XPullPoll
    \/ XPullTimeout
    \/ ExtXAnswer
    \/ WIterate
    \/ WorkerSend

\* Nothing is left to do unless something new comes from outside.
Quiescent == ~ENABLED SystemNext

\* Exactly one external selection change has happened, and no request.
OneChange == ext_left = MaxExt - 1 /\ cmd_left = MaxReq

\* C4: after one external change and no further one, the system comes to
\* rest with all four channels empty (and so with no Assert to come).
C4_NoEchoLoop ==
    (OneChange /\ Quiescent)
        => /\ x11_to_wayland = <<>>
           /\ wayland_to_x11 = <<>>
           /\ set_x11_clipboard = <<>>
           /\ set_wayland_clipboard = <<>>

\* What the Wayland adapter writes when the clipboard source it records is
\* asked for the UTF-8 text MIME type.
WServes ==
    IF w_source["Clipboard"] = None THEN <<>>
    ELSE SendBytes(WState, Unwrap(w_source["Clipboard"]), TEXT_PLAIN_UTF8_ATOM)

\* What a requestor of the X11 CLIPBOARD is given for UTF8_STRING.
XServes ==
    handle_selection_request(XState,
        [type |-> "SelectionRequest", selection |-> "Clipboard",
         target |-> UTF8_STRING_ATOM, property |-> RequestProperty]).reply

\* C5: once an external client has copied text s to the clipboard of one
\* side and nothing else changes, the system comes to rest with the other
\* adapter holding s as its clipboard snapshot and serving the bytes of s.
C5_ForwardingLiveness ==
    (OneChange /\ Quiescent)
        => /\ x_owner["Clipboard"] = "ext"
                => /\ w_content["Clipboard"] = Some(Text(Unwrap(x_ext["Clipboard"])))
                   /\ w_sel["Clipboard"].owner = "self"
                   /\ WServes = as_bytes(Unwrap(x_ext["Clipboard"]))
           /\ \A t \in Texts :
                (w_sel["Clipboard"].owner = "ext" /\ w_sel["Clipboard"].data = TextData(t))
                => /\ x_content["Clipboard"] = Some(t)
                   /\ x_owner["Clipboard"] = "self"
                   /\ XServes.property # NONE
                   /\ XServes.value = as_bytes(t)

\* C6: every Assert enqueued on set_x11_clipboard or set_wayland_clipboard
\* is applied without a further display-server event: when the system is at
\* rest, neither channel holds an Assert.
C6_AssertApplied ==
    Quiescent => (set_x11_clipboard = <<>> /\ set_wayland_clipboard = <<>>)

\* C7: when the owner of the clipboard of one side has released it, the
\* adapter of the other side, which asserted that owner's content, comes to
\* rest holding nothing: the X adapter answers a request with NONE, the
\* Wayland adapter has nothing to send.
C7_Clearing ==
    Quiescent
        => /\ (w_sel["Clipboard"].owner = "none" /\ x_owner["Clipboard"] = "self")
                => (x_content["Clipboard"] = None /\ XServes.property = NONE)
           /\ (x_owner["Clipboard"] = "none" /\ w_sel["Clipboard"].owner = "self")
                => (w_content["Clipboard"] \in {None, Some(Empty)} /\ WServes = <<>>)

\* This step applies the Assert at the head of set_wayland_clipboard.
AppliesAssert ==
    set_wayland_clipboard # <<>> /\ set_wayland_clipboard' = Tail(set_wayland_clipboard)

\* What the bridge holds for kind k: the ledger entry, the snapshot of the
\* X adapter, the snapshot of the Wayland adapter and the source it records.
KindState(k) == << ledger[k], x_content[k], w_content[k], w_source[k] >>

\* The kind a Wayland event is about: the selection it announces, or the
\* kind for which the adapter records the source it is sent to.
WEventKinds(e) ==
    IF e.type = "Selection" THEN {"Clipboard"}
    ELSE IF e.type = "PrimarySelection" THEN {"Primary"}
    ELSE { k \in Kinds : w_source[k] = Some(e.src) }

\* The kinds of what this step processes: the Observed the sync loop takes,
\* the Assert an adapter applies, the event it dispatches, the pull it is in.
StepKinds ==
    IF SyncFromX11 THEN { Head(x11_to_wayland).clipboard_type }
    ELSE IF SyncFromWayland THEN { Head(wayland_to_x11).clipboard_type }
    ELSE IF XIterate
    THEN (IF set_x11_clipboard # <<>>
          THEN { Head(set_x11_clipboard).clipboard_type } ELSE {})
         \cup (IF x_events # <<>> THEN { Head(x_events).selection } ELSE {})
    ELSE IF XPullPoll \/ XPullTimeout THEN { x_pull.kind }
    ELSE IF WIterate
    THEN (IF AppliesAssert THEN { Head(set_wayland_clipboard).clipboard_type } ELSE {})
         \cup WEventKinds(Head(w_events))
    ELSE {}

\* C8: processing an Observed, an Assert, a SelectionClear, a
\* SelectionRequest or a Send for one kind leaves the ledger entry, the X
\* snapshot, the Wayland snapshot and the Wayland source of the other kind
\* unchanged: a step changes what is held for a kind only if it processes
\* something of that kind.
C8_KindsIndependent ==
    [][ \A k \in Kinds : (KindState(k)' # KindState(k)) => k \in StepKinds ]_vars

\* A Primary text went from X11 through the ledger to the Wayland adapter,
\* and nothing is held for the clipboard.
C8_Witness ==
    /\ ledger["Primary"] # None /\ ledger["Clipboard"] = None
    /\ x_content["Primary"] # None /\ x_content["Clipboard"] = None
    /\ w_content["Primary"] # None /\ w_content["Clipboard"] = None
    /\ w_source["Primary"] # None /\ w_source["Clipboard"] = None

\* C9: the source the Wayland adapter records for a kind (clipboard_source,
\* primary_source) is a live source, not a destroyed one, at every moment
\* between two Asserts, a Cancelled event included.
C9_NoTornOwnership ==
    \A k \in Kinds : w_source[k] # None => Unwrap(w_source[k]) \in w_live

\* Position of the first request of rs with operation op, or 0.
First(rs, op) ==
    IF \E i \in 1..Len(rs) : rs[i].op = op
    THEN CHOOSE i \in 1..Len(rs) :
            rs[i].op = op /\ \A j \in 1..(i - 1) : rs[j].op # op
    ELSE 0

\* C10: in every Wayland Assert of Text or Binary content, of either kind,
\* the new source is created, its MIME types are offered and it is made the
\* selection strictly before the source recorded before is destroyed, and
\* the selection is never left without a source inside the Assert.
C10_NewBeforeDestroy ==
    [][ (AppliesAssert /\ Head(set_wayland_clipboard).content.tag \in {"Text", "Binary"})
        => LET m == Head(set_wayland_clipboard)
               k == m.clipboard_type
               rs == w_requests'
               set == First(rs, "set_selection")
           IN  /\ rs[1] = [op |-> "create_data_source", src |-> Unwrap(w_source'[k])]
               /\ set > 1
               /\ rs[set].kind = k /\ rs[set].src = Unwrap(w_source'[k])
               /\ rs[set].mimes = SeqToSet(OfferedMimes(m.content))
               /\ rs[set].mimes # {}
               /\ \A i \in 1..Len(rs) :
                     /\ rs[i].op = "offer" => (1 < i /\ i < set)
                     /\ rs[i].op = "destroy"
                          => (i > set /\ w_source[k] = Some(rs[i].src))
               /\ (w_source[k] # None) => First(rs, "destroy") > set
               /\ w_sel'[k] = [owner |-> "self", src |-> Unwrap(w_source'[k]),
                                mimes |-> SeqToSet(OfferedMimes(m.content))]
               /\ \A i \in 1..Len(w_events') :
                     w_events'[i] = SelectionEvent(k, NoOffer)
                        => \E j \in 1..Len(w_events) : w_events[j] = w_events'[i] ]_vars

\* An Assert of Text or Binary content has replaced, and destroyed, the
\* source of an earlier Assert of the same kind.
C10_Witness ==
    /\ w_requests # <<>>
    /\ First(w_requests, "destroy") > First(w_requests, "set_selection")
    /\ First(w_requests, "offer") > 0

RoundTrip(s) ==
    LET pulled == DecodeProperty([type |-> UTF8_STRING_ATOM, value |-> as_bytes(s)])
        ws == w_set_clipboard_content(WState, Text(pulled.text), "Clipboard")
        src == Unwrap(ws.source["Clipboard"])
        all_data == [m \in SeqToSet(mime_types) |-> SendBytes(ws, src, m)]
        observed == WorkerResult(all_data, HasText(all_data))
        xs == x_set_clipboard_content(XState, Unwrap(observed).text, "Clipboard")
        served == handle_selection_request(xs,
                     [type |-> "SelectionRequest", selection |-> "Clipboard",
                      target |-> UTF8_STRING_ATOM, property |-> RequestProperty]).reply
    IN  /\ pulled.status = "ok" /\ pulled.text = s
        /\ ws.content["Clipboard"] = Some(Text(s))
        /\ observed = Some(Text(s))
        /\ xs.content["Clipboard"] = Some(s)
        /\ served.property # NONE
        /\ served.type = UTF8_STRING_ATOM
        /\ served.value = as_bytes(s)

\* C12: the text of every Assert is the text of the Observed that caused
\* it, and a text forwarded from X11 to Wayland and back to X11 is held and
\* served by the X adapter byte for byte.
C12_TextRoundTrip ==
    /\ [](\A s \in Texts : RoundTrip(s))
    /\ [][ /\ Enqueues(set_wayland_clipboard)
               => /\ Takes(x11_to_wayland)
                  /\ Enqueued(set_wayland_clipboard).content = Head(x11_to_wayland).content
                  /\ Enqueued(set_wayland_clipboard).clipboard_type
                       = Head(x11_to_wayland).clipboard_type
           /\ Enqueues(set_x11_clipboard)
               => /\ Takes(wayland_to_x11)
                  /\ Enqueued(set_x11_clipboard).content = Head(wayland_to_x11).content
                  /\ Enqueued(set_x11_clipboard).clipboard_type
                       = Head(wayland_to_x11).clipboard_type ]_vars

\* The sync loop has forwarded a text of more than one byte a character in
\* each direction.
C12_Witness ==
    /\ \E i \in 1..Len(set_wayland_clipboard) :
          set_wayland_clipboard[i].content = Text(<<233>>)
    /\ \E i \in 1..Len(set_x11_clipboard) :
          set_x11_clipboard[i].content = Text(<<233>>)

\* Ledger entry e records content c. The entry is an Option<String>: Some of
\* a text, or None; none of its values is a Binary map.
LedgerHolds(e, c) ==
    IF c.tag = "Text" THEN e = Some(c.text)
    ELSE IF c.tag = "Empty" THEN e = None
    ELSE FALSE

\* C13: after the sync loop has processed an Observed(Clipboard, Binary(m))
\* from the Wayland adapter, with m differing from the ledger, the ledger
\* entry for the clipboard is Binary(m).
C13_BinaryLedger ==
    [][ (/\ Takes(wayland_to_x11)
         /\ Head(wayland_to_x11).content.tag = "Binary"
         /\ Head(wayland_to_x11).clipboard_type = "Clipboard")
        => LedgerHolds(ledger'["Clipboard"], Head(wayland_to_x11).content) ]_vars

\* The MIME types a client may ask a source for.
SendMimes == SeqToSet(mime_types) \cup { TEXT_ATOM, STRING_ATOM }

\* What a Send for MIME type mime is to be given from content c.
Served(c, mime) ==
    IF c.tag = "Text" THEN as_bytes(c.text)
    ELSE IF c.tag = "Binary" /\ mime \in DOMAIN c.map THEN c.map[mime]
    ELSE <<>>

\* C14: a Send to the source recorded for a kind is served from the
\* snapshot of that kind: the UTF-8 bytes of a Text whatever the MIME type,
\* the bytes a Binary map holds for exactly that MIME type, nothing if the
\* map has no such key.
C14_SendServesSnapshot ==
    \A k \in Kinds : \A mime \in SendMimes :
        (w_source[k] # None /\ w_content[k] # None)
        => SendBytes(WState, Unwrap(w_source[k]), mime)
             = Served(Unwrap(w_content[k]), mime)

\* The adapter records a source for each kind, a Text behind one and a
\* Binary map behind the other.
C14_Witness ==
    /\ w_source["Clipboard"] # None /\ w_source["Primary"] # None
    /\ w_source["Clipboard"] # w_source["Primary"]
    /\ w_content["Clipboard"] = Some(Binary(PngData))
    /\ w_content["Primary"] = Some(Text(<<97>>))

\* C15: when the X adapter applies Assert(kind, text), set_clipboard_content
\* leaves the snapshot of kind equal to text, the selection of kind owned by
\* the adapter's window (claimed with time 0), and the snapshot of the other
\* kind as it was; and that is what the iteration leaves behind when the
\* event it then polls is the report of that very claim.
C15_XAssert ==
    [][ (Takes(set_x11_clipboard) /\ x_pc = "loop")
        => LET m == Head(set_x11_clipboard)
               k == m.clipboard_type
               a == x_set_clipboard_content(XState, m.content.text, k)
           IN  /\ a.content[k] = Some(m.content.text)
               /\ a.content[Other(k)] = x_content[Other(k)]
               /\ a.owner[k] = "self"
               /\ a.owner[Other(k)] = x_owner[Other(k)]
               /\ x_owner'[k] = "self"
               /\ x_events = <<>>
                    => /\ x_content'[k] = Some(m.content.text)
                       /\ x_content'[Other(k)] = x_content[Other(k)]
                       /\ x_events' = <<>> ]_vars

\* An Assert was applied for one kind while the other kind held a snapshot
\* of another text.
C15_Witness ==
    \E k \in Kinds :
        /\ x_owner[k] = "self" /\ x_content[k] # None
        /\ x_content[Other(k)] # None /\ x_content[Other(k)] # x_content[k]
        /\ x_events = <<>> /\ set_x11_clipboard = <<>>

\* The X adapter takes the event at the head of its queue off the connection.
PollsHead ==
    /\ x_events # <<>>
    /\ \/ Len(x_events') < Len(x_events)
       \/ SubSeq(x_events', 1, Len(x_events)) # x_events

\* The SelectionNotify a SelectionRequest e is due: the request's property
\* when it is served, NONE when the target is unsupported or the kind has
\* no snapshot.
DueProperty(e) ==
    IF e.target \in {TARGETS_ATOM, MULTIPLE_ATOM} THEN e.property
    ELSE IF e.target \in {UTF8_STRING_ATOM, STRING_ATOM, TEXT_ATOM}
            /\ x_content[e.selection] # None
    THEN e.property
    ELSE NONE

\* C16: every SelectionRequest the X adapter takes off its connection is
\* answered with a SelectionNotify for that request (its selection and
\* target, its property on success and NONE otherwise), also when it is the
\* wait loop of a pull that takes it.
C16_EveryRequestAnswered ==
    [][ (PollsHead /\ Head(x_events).type = "SelectionRequest"
           /\ set_x11_clipboard' = set_x11_clipboard)
        => LET e == Head(x_events)
           IN  /\ x_reply'.answered
               /\ x_reply'.selection = e.selection
               /\ x_reply'.target = e.target
               /\ x_reply'.property = DueProperty(e) ]_vars

\* run_event_loop dispatches the SelectionRequest at the head of the queue,
\* in an iteration that received no Assert.
DispatchesRequest ==
    /\ x_pc = "loop"
    /\ PollsHead
    /\ Head(x_events).type = "SelectionRequest"
    /\ set_x11_clipboard' = set_x11_clipboard

C19_EmptyClears ==
    [][ (AppliesAssert /\ Head(set_wayland_clipboard).content.tag = "Empty")
        => LET k == Head(set_wayland_clipboard).clipboard_type
               rs == w_requests'
           IN  /\ \A i \in 1..Len(rs) : rs[i].op # "create_data_source"
               /\ w_source[k] # None
                    => \E i \in 1..Len(rs) :
                          rs[i] = [op |-> "destroy", src |-> Unwrap(w_source[k])]
               /\ w_source'[k] = None
               /\ w_sel'[k].owner # "self" ]_vars

\* The X adapter has a step to take: a message or an event for its loop, or
\* a pull in progress.
XAdapterBusy == ENABLED (XIterate \/ XPullPoll \/ XPullTimeout)

\* The Wayland adapter has a step to take: an event wakes blocking_dispatch.
WAdapterBusy == ENABLED WIterate

\* C20: once the channel of its Asserts is closed and the adapter has
\* nothing left to drain, the loop of the X adapter, and likewise of the
\* Wayland adapter, has exited.
C20_ShutdownExits ==
    /\ ("set_x11_clipboard" \in closed /\ ~XAdapterBusy) => XLoopExited
    /\ ("set_wayland_clipboard" \in closed /\ ~WAdapterBusy) => WaylandLoopExited

\* C21: once its connection has failed and the adapter has nothing left to
\* receive, the loop of the affected adapter has stopped and the process
\* has ended.
C21_FatalErrorsTerminate ==
    /\ ("x11" \in broken /\ ~ENABLED (XIterateBroken \/ XPullBroken))
          => (XLoopExited /\ ProcessEnded)
    /\ ("wayland" \in broken /\ ~ENABLED WIterateBroken)
          => (WaylandLoopExited /\ ProcessEnded)

\* The X adapter takes off its connection a SelectionNotify that names a
\* property whose bytes do not decode.
PollsUndecodable ==
    /\ PollsHead
    /\ Head(x_events).type = "SelectionNotify"
    /\ Head(x_events).property # NONE
    /\ DecodeProperty(x_props[Head(x_events).property]).status = "invalid"

\* C22: when the property a SelectionNotify names holds bytes typed
\* UTF8_STRING or text/plain that are not valid UTF-8, no Observed is
\* emitted and the event loop of the X adapter keeps running, whether the
\* pull or the main loop took the SelectionNotify.
C22_DecodeFailureSurvived ==
    [][ PollsUndecodable
        => /\ x11_to_wayland' = x11_to_wayland
           /\ x_pc' = "loop" ]_vars

\* The ten atoms the adapter requires.
RequiredAtoms ==
    { "CLIPBOARD", "PRIMARY", "TARGETS", "MULTIPLE", "INCR", "UTF8_STRING",
      "TEXT", "STRING", "text/plain;charset=utf-8", "text/plain" }

\* C23: whenever X11State::new succeeds, get_atom returns a value for each
\* of the ten required atoms, and so for every name that the handler of a
\* queued event or of a queued Assert looks up and unwraps, in every state
\* the adapter reaches afterwards.
C23_AtomsInterned ==
    \A failing \in 0..Len(atom_names) :
        LET new == X11State_new(failing)
        IN  new.ok
            => /\ \A n \in RequiredAtoms : get_atom(new.atoms, n) # None
               /\ \A i \in 1..Len(x_events) : \A n \in HandlerLookups(x_events[i]) :
                     get_atom(new.atoms, n) # None
               /\ \A i \in 1..Len(set_x11_clipboard) : \A n \in AssertLookups :
                     get_atom(new.atoms, n) # None

\* X11State::new succeeded and a handler that looks atoms up has answered
\* a request.
C23_Witness ==
    /\ X11State_new(0).ok
    /\ x_reply.answered
    /\ x_reply.target = TARGETS_ATOM

\* run_event_loop dispatches the XFixes event at the head of the queue.
DispatchesXfixes ==
    /\ x_pc = "loop"
    /\ PollsHead
    /\ Head(x_events).type = "XfixesSelectionNotify"

\* C24: handling an XFixesSelectionNotify whose owner is 0, the X adapter
\* emits Observed(kind, Empty) and starts no pull.
C24_NoOwnerObservedEmpty ==
    [][ (DispatchesXfixes /\ Head(x_events).owner = "none")
        => /\ x11_to_wayland' =
                 Append(x11_to_wayland, SyncEvent(Empty, Head(x_events).selection))
           /\ x_pc' = "loop"
           /\ x_converts' = x_converts ]_vars

\* The X adapter takes off its connection, in the main loop or in the wait
\* loop of a pull, an XFixes event that reports an external owner which
\* still owns the selection, in an iteration that received no Assert.
PollsExternalOwner ==
    /\ PollsHead
    /\ Head(x_events).type = "XfixesSelectionNotify"
    /\ Head(x_events).owner = "ext"
    /\ x_owner[Head(x_events).selection] = "ext"
    /\ set_x11_clipboard' = set_x11_clipboard

\* A pull for kind k is initiated: its first convert_selection, for
\* UTF8_STRING, is issued.
InitiatesPull(k) ==
    /\ Len(x_converts') = Len(x_converts) + 1
    /\ x_converts'[Len(x_converts')].selection = k
    /\ x_converts'[Len(x_converts')].target = targets[1]
    /\ x_pc' = "pull"
    /\ x_pull'.kind = k

\* C25: for every XFixesSelectionNotify the X adapter is delivered whose
\* owner is neither its own window nor 0, it initiates a pull for that
\* kind, also when the notification is delivered while an earlier pull is
\* polling for its SelectionNotify.
C25_ExternalOwnerPulled ==
    [][ PollsExternalOwner => InitiatesPull(Head(x_events).selection) ]_vars

\* The step is an iteration of run_event_loop.
XIterates ==
    /\ x_pc = "loop"
    /\ \/ Takes(set_x11_clipboard)
       \/ set_x11_clipboard = <<>> /\ PollsHead

\* The adapter and its server after the try_recv of the iteration and the
\* set_clipboard_content it leads to.
Received ==
    IF set_x11_clipboard # <<>>
    THEN LET m == Head(set_x11_clipboard)
         IN  x_set_clipboard_content(XState, m.content.text, m.clipboard_type)
    ELSE XState

\* The event the iteration polls.
Polled == Head(Received.events)

\* C26: when the X adapter handles an XFixesSelectionNotify whose owner is
\* its own window, or the pull it leads to finds its own window to be the
\* owner, it issues no convert_selection, emits no Observed and leaves both
\* snapshots as they were.
C26_OwnSelectionIgnored ==
    [][ (XIterates /\ Polled.type = "XfixesSelectionNotify"
           /\ (Polled.owner = "self" \/ Received.owner[Polled.selection] = "self"))
        => /\ x_converts' = Received.converts
           /\ x11_to_wayland' = Received.observed
           /\ x_content' = Received.content
           /\ x_events' = Tail(Received.events)
           /\ x_pc' = "loop" ]_vars

\* The adapter owns a selection and has handled the XFixes report of its own
\* claim: nothing was observed, nothing is being converted.
C26_Witness ==
    \E k \in Kinds :
        /\ x_owner[k] = "self" /\ x_content[k] # None
        /\ x_events = <<>> /\ set_x11_clipboard = <<>>
        /\ x_pc = "loop" /\ x_converts = <<>> /\ x11_to_wayland = <<>>

\* The order in which a pull is to try the targets.
PullOrder == << "UTF8_STRING", "text/plain", "STRING" >>

\* The pull issues its n-th convert_selection for kind k: the request
\* reaches the external owner, or the server refuses it at once.
Requests(k, n) ==
    \/ /\ Len(x_converts') = Len(x_converts) + 1
       /\ x_converts'[Len(x_converts')].selection = k
       /\ x_converts'[Len(x_converts')].target = PullOrder[n]
    \/ /\ x_converts' = x_converts
       /\ x_events' # <<>>
       /\ x_events'[Len(x_events')] = SelectionNotify(k, PullOrder[n], NONE)

\* The wait loop of the pull takes a SelectionNotify off the connection.
PullPollsNotify ==
    /\ x_pc = "pull"
    /\ PollsHead
    /\ Head(x_events).type = "SelectionNotify"

\* The polls of an attempt of the pull run out.
PullTimesOut == x_pc = "pull" /\ x_events = <<>> /\ x_pull' # x_pull

\* C27: a pull tries the targets in the order UTF8_STRING, text/plain,
\* STRING. On a reply whose property decodes it emits Observed(kind,
\* Text(value)), deletes the scratch property and tries no further target;
\* on a SelectionNotify with property NONE or on a timeout it goes on to
\* the next target, and after the third it ends and emits nothing.
C27_PullOrder ==
    [][ /\ (x_pc = "loop" /\ x_pc' = "pull")
            => (x_pull'.i = 1 /\ Requests(x_pull'.kind, 1))
        /\ (x_pc = "pull" /\ x_pc' = "pull" /\ x_pull' # x_pull)
            => /\ x_pull'.kind = x_pull.kind
               /\ x_pull'.i = x_pull.i + 1
               /\ x_pull'.i <= Len(PullOrder)
               /\ Requests(x_pull.kind, x_pull.i + 1)
               /\ x11_to_wayland' = x11_to_wayland
        /\ (PullPollsNotify /\ Head(x_events).property # NONE
               /\ DecodeProperty(x_props[Head(x_events).property]).status = "ok")
            => LET p == Head(x_events).property
                   value == DecodeProperty(x_props[p]).text
               IN  /\ x11_to_wayland' =
                         Append(x11_to_wayland, SyncEvent(Text(value), x_pull.kind))
                   /\ x_props'[p] = NoProperty
                   /\ x_pc' = "loop"
                   /\ x_converts' = x_converts
        /\ ((PullPollsNotify /\ Head(x_events).property = NONE) \/ PullTimesOut)
            => /\ x11_to_wayland' = x11_to_wayland
               /\ IF x_pull.i < Len(PullOrder)
                  THEN x_pc' = "pull" /\ x_pull'.i = x_pull.i + 1
                  ELSE x_pc' = "loop" /\ x_converts' = x_converts ]_vars

\* A pull has emitted one Observed and ended, its scratch properties
\* deleted and no request of it left with the owner.
C27_Witness ==
    /\ Len(x11_to_wayland) = 1
    /\ x11_to_wayland[1].content.tag = "Text"
    /\ x_pc = "loop"
    /\ x_converts = <<>> /\ x_events = <<>>
    /\ \A p \in DOMAIN x_props : x_props[p] = NoProperty

\* The SelectionNotify e answers the convert request the pull is waiting on.
AnswersCurrentAttempt(e) ==
    /\ e.selection = x_pull.kind
    /\ e.target = PullOrder[x_pull.i]
    /\ e.property \in {x_pull.i, NONE}

\* C28: the SelectionNotify from which a pull produces an Observed, or on
\* which it goes on to the next target or ends, is the answer to its own
\* current convert request: never the reply to an earlier attempt that timed
\* out or to a pull for the other kind, so that an Observed(K, value) always
\* carries a value read from selection K.
C28_PullConsumesOwnReply ==
    [][ (PullPollsNotify /\ (x_pull' # x_pull \/ Enqueues(x11_to_wayland)))
        => /\ AnswersCurrentAttempt(Head(x_events))
           /\ Enqueues(x11_to_wayland)
                => Enqueued(x11_to_wayland).clipboard_type = Head(x_events).selection
       ]_vars

C30_SnapshotOnlyAsserted ==
    [][ \A k \in Kinds :
          (x_content'[k] # x_content[k])
          => IF x_content'[k] = None
             THEN XIterates /\ Polled.type = "SelectionClear" /\ Polled.selection = k
             ELSE /\ Takes(set_x11_clipboard)
                  /\ Head(set_x11_clipboard).clipboard_type = k
                  /\ x_content'[k] = Some(Head(set_x11_clipboard).content.text) ]_vars

\* The text MIME types of the probe list, the preferred one first.
TextMimes == << "text/plain;charset=utf-8", "text/plain", "UTF8_STRING" >>

\* What a client holding `data` writes when asked for MIME type m.
Yields(data, m) == IF m \in DOMAIN data THEN data[m] ELSE <<>>

\* The content a probe of a client holding `data` is to report: the first
\* text MIME type with bytes that decode to a non-empty string as Text, else
\* every probed MIME type with bytes as Binary, else nothing.
Classified(data) ==
    LET usable(m) == Yields(data, m) # <<>> /\ from_utf8(Yields(data, m)) # None
        probed == { m \in SeqToSet(mime_types) : Yields(data, m) # <<>> }
    IN  IF \E i \in 1..Len(TextMimes) : usable(TextMimes[i])
        THEN LET i == CHOOSE j \in 1..Len(TextMimes) :
                        /\ usable(TextMimes[j])
                        /\ \A h \in 1..(j - 1) : ~usable(TextMimes[h])
             IN  Some(Text(Unwrap(from_utf8(Yields(data, TextMimes[i])))))
        ELSE IF probed # {} THEN Some(Binary([m \in probed |-> data[m]]))
        ELSE None

\* The Wayland loop dispatches a Selection event that carries the offer of
\* another client.
DispatchesOffer ==
    /\ WIterate
    /\ Head(w_events).type = "Selection"
    /\ Head(w_events).offer.src = "ext"

\* C31: the probe of a new offer reports Text(decoded) if any text MIME
\* type, UTF8_STRING alone included, yielded bytes that decode to a
\* non-empty string, text/plain;charset=utf-8 before text/plain; otherwise
\* Binary(map) if any MIME type yielded bytes; otherwise nothing.
C31_ObservationClassified ==
    [][ DispatchesOffer
        => LET expected == Classified(Head(w_events).offer.data)
           IN  w_workers' = IF expected = None THEN w_workers
                            ELSE Append(w_workers, Unwrap(expected)) ]_vars

\* The Wayland loop dispatches a Selection event with no offer.
DispatchesCleared ==
    /\ WIterate
    /\ Head(w_events).type = "Selection"
    /\ Head(w_events).offer = NoOffer

\* The sequence q without its element number i.
Without(q, i) ==
    [j \in 1..(Len(q) - 1) |-> IF j < i THEN q[j] ELSE q[j + 1]]

\* C32: a Selection event with no offer leaves the adapter with exactly one
\* Empty to emit and starts no probe: no request goes to any source, and
\* what is left to emit is emitted once, as an Observed for the clipboard.
C32_ClearedObservedEmpty ==
    [][ /\ DispatchesCleared
            => /\ w_workers' = Append(w_workers, Empty)
               /\ w_events' = Tail(w_events)
               /\ wayland_to_x11' = wayland_to_x11
        /\ (wayland_to_x11' # wayland_to_x11)
            => \E i \in 1..Len(w_workers) :
                  /\ wayland_to_x11' =
                        Append(wayland_to_x11, SyncEvent(w_workers[i], "Clipboard"))
                  /\ w_workers' = Without(w_workers, i) ]_vars

\* The clipboard was cleared by its owner and the adapter has reported it:
\* the last Observed is Empty and nothing waits to be processed.
C32_Witness ==
    /\ w_sel["Clipboard"].owner = "none"
    /\ w_events = <<>> /\ w_workers = <<>>
    /\ wayland_to_x11 # <<>>
    /\ wayland_to_x11[Len(wayland_to_x11)] = SyncEvent(Empty, "Clipboard")

\* The Wayland loop dispatches a PrimarySelection event.
DispatchesPrimary ==
    /\ WIterate
    /\ Head(w_events).type = "PrimarySelection"

\* C33: a PrimarySelection event produces no Observed and changes nothing
\* the adapter holds; every Observed of the Wayland adapter is of kind
\* Clipboard, and so is every Assert the sync loop sends to the X adapter.
C33_PrimarySuppressed ==
    [][ /\ DispatchesPrimary
            => /\ w_workers' = w_workers
               /\ wayland_to_x11' = wayland_to_x11
               /\ ~AppliesAssert
                    => /\ UNCHANGED << w_vars, w_sel, w_live, w_next, w_double_destroy,
                                       w_globals >>
                       /\ w_events' = Tail(w_events)
        /\ \A i \in 1..Len(wayland_to_x11') :
              wayland_to_x11'[i].clipboard_type = "Clipboard"
        /\ \A i \in 1..Len(set_x11_clipboard') :
              set_x11_clipboard'[i].clipboard_type = "Clipboard" ]_vars

\* Another client has made a primary selection, the adapter has dispatched
\* the event, and nothing was observed or forwarded for it.
C33_Witness ==
    /\ w_sel["Primary"].owner = "ext"
    /\ w_events = <<>> /\ w_workers = <<>>
    /\ wayland_to_x11 = <<>> /\ set_x11_clipboard = <<>>
    /\ ledger["Primary"] = None

\* The Wayland loop dispatches a Cancelled event for the source the adapter
\* records for kind k, and applies no Assert in the same iteration.
DispatchesCancelled(k) ==
    /\ WIterate
    /\ ~AppliesAssert
    /\ Head(w_events).type = "Cancelled"
    /\ w_source[k] = Some(Head(w_events).src)

\* C34: a Cancelled event for the current source of kind k destroys the
\* source and clears the snapshot of k: afterwards the adapter records
\* neither the source nor its content for k.
C34_CancelledClears ==
    [][ \A k \in Kinds :
          DispatchesCancelled(k)
          => /\ Head(w_events).src \notin w_live'
             /\ w_source'[k] = None
             /\ w_content'[k] = None ]_vars

\* A content value as the Observed of the Wayland adapter may carry it: a
\* Binary has at least one MIME type and bytes for each, a Text has
\* characters.
WellFormed(c) ==
    /\ c.tag = "Binary" => /\ DOMAIN c.map # {}
                           /\ \A m \in DOMAIN c.map : c.map[m] # <<>>
    /\ c.tag = "Text" => c.text # <<>>

\* C35: every Binary the Wayland adapter emits, or is about to emit, has a
\* non-empty MIME map whose every value is a non-empty byte sequence, and
\* every Text is a non-empty string.
C35_EmittedWellFormed ==
    /\ \A i \in 1..Len(w_workers) : WellFormed(w_workers[i])
    /\ \A i \in 1..Len(wayland_to_x11) : WellFormed(wayland_to_x11[i].content)

\* The adapter has emitted a Text and a Binary, and has since probed a
\* client that wrote nothing for the one probed MIME type it offers.
C35_Witness ==
    /\ \E i \in 1..Len(wayland_to_x11) : wayland_to_x11[i].content.tag = "Text"
    /\ \E i \in 1..Len(wayland_to_x11) : wayland_to_x11[i].content.tag = "Binary"
    /\ w_sel["Clipboard"] = [owner |-> "ext", data |-> EmptyPng]
    /\ w_events = <<>> /\ w_workers = <<>>

\* C36: whenever the adapter's window owns selection k on the X server, as
\* it does only through an applied Assert, the adapter holds a snapshot for
\* k, also when a SelectionClear for an earlier loss of ownership is
\* processed after a newer Assert.
C36_OwnerImpliesSnapshot ==
    \A k \in Kinds : x_owner[k] = "self" => x_content[k] # None

\* What the probe of the clipboard selection the compositor holds now
\* reports: Empty for no selection, the result of the probe thread for the
\* offer of another client, None if that thread has nothing to send.
NewestObservation ==
    LET sel == w_sel["Clipboard"]
    IN  IF sel.owner = "none" THEN Some(Empty)
        ELSE IF sel.owner = "ext"
        THEN LET all_data == ProbeExternal(sel.data)
             IN  WorkerResult(all_data, HasText(all_data))
        ELSE None

\* C37: the Observed of the probe threads reach wayland_to_x11 in the order
\* of their Selection events, so that, once every event is dispatched and
\* every thread has sent, the last Observed describes the selection the
\* compositor holds.
C37_LastObservedNewest ==
    (/\ w_events = <<>> /\ w_workers = <<>>
     /\ wayland_to_x11 # <<>>
     /\ NewestObservation # None)
    => wayland_to_x11[Len(wayland_to_x11)].content = Unwrap(NewestObservation)

\* C38: every external change of ownership on the X server produces at most
\* one Observed: the reply to a convert request is turned into an Observed
\* by the pull or by the SelectionNotify handler of the main loop, never by
\* both, and a reply that comes after its attempt timed out adds no second
\* Observed. The adapter has sent no more Observed than other clients have
\* made copies.
C38_OneObservedPerChange ==
    Len(x11_to_wayland) <= MaxDecodeExt - ext_left

\* C39: over any sequence of Asserts and Cancelled events the adapter calls
\* destroy on a data source at most once: it never destroys a source it has
\* already destroyed.
C39_DestroyedOnce == ~w_double_destroy

\* C40: an Assert applied while no data-control device is bound is a no-op:
\* the snapshots, the recorded sources and the selections of both kinds are
\* as before, and no source is created.
C40_NoDeviceNoOp ==
    [][ (AppliesAssert /\ ~w_device')
        => /\ UNCHANGED << w_content, w_pending_primary, w_source, w_sel >>
           /\ UNCHANGED << w_live, w_next >>
           /\ w_requests' = <<>> ]_vars

\* Every Assert handed to the adapter has been applied, and the device is
\* still not bound.
C40_Witness ==
    /\ ~w_device
    /\ cmd_left = 0
    /\ set_wayland_clipboard = <<>>

====
